---- MODULE Spec2Model ----
(***************************************************************************)
(* A model of the knowledge base of polar-core (kb.rs) and of its resource *)
(* block rewriter (sugar.rs): the specializer matcher, the rule prototype  *)
(* validator, the declaration indexer and the implication rewriter.        *)
(***************************************************************************)
EXTENDS Integers, Sequences, FiniteSets, TLC

VARIABLES
    constants,        \* KnowledgeBase.constants: class name -> registered value
    mro,              \* KnowledgeBase.mro: class name -> list of instance ids
    rules,            \* KnowledgeBase.rules: rule name -> rules of that name
    rule_prototypes,  \* KnowledgeBase.rule_prototypes: rule name -> prototypes
    resource_blocks,  \* KnowledgeBase.resource_blocks (ResourceBlocks)
    loaded_files,     \* KnowledgeBase.loaded_files: filename -> source id
    loaded_content,   \* KnowledgeBase.loaded_content: source text -> filename
    sources,          \* KnowledgeBase.sources: source id -> Source
    id_counter,       \* KnowledgeBase.id_counter: the next id it hands out
    gensym_counter,   \* KnowledgeBase.gensym_counter: the next gensym number
    inline_queries,   \* KnowledgeBase.inline_queries
    rule_param,       \* the rule parameter handed to check_param
    prototype_param,  \* the prototype parameter handed to check_param
    ret               \* the value returned by the most recent call

\* The bookkeeping of loaded sources.
source_state == <<loaded_files, loaded_content, sources, id_counter,
                  gensym_counter, inline_queries>>

vars == <<constants, mro, rules, rule_prototypes, resource_blocks,
          source_state, rule_param, prototype_param, ret>>

\* Bounds of the model.
MaxLen == 2       \* longest list literal
MaxRules == 3     \* rules plus prototypes held by the knowledge base
MaxBlocks == 2    \* resource blocks offered in one batch

(***************************************************************************)
(* Terms.  A Value is a record of one shape; `kind` is the variant of the  *)
(* Rust enum.  Source positions are left out: Term equality ignores them.  *)
(***************************************************************************)
NoFields == <<>>

Mk(kind, tag, fields, items, val) ==
    [kind |-> kind, tag |-> tag, fields |-> fields, items |-> items, val |-> val]

NoneValue == Mk("None", "", NoFields, <<>>, "")
Variable(name) == Mk("Variable", "", NoFields, <<>>, name)
Integer(s) == Mk("Integer", "", NoFields, <<>>, s)
Float(s) == Mk("Float", "", NoFields, <<>>, s)
String(s) == Mk("String", "", NoFields, <<>>, s)
Boolean(s) == Mk("Boolean", "", NoFields, <<>>, s)
List(items) == Mk("List", "", NoFields, items, "")
Dictionary(fields) == Mk("Dictionary", "", fields, <<>>, "")
InstancePattern(tag, fields) == Mk("Instance", tag, fields, <<>>, "")
DictionaryPattern(fields) == Mk("DictionaryPattern", "", fields, <<>>, "")
Call(name, args) == Mk("Call", name, NoFields, args, "")
And(args) == Mk("And", "", NoFields, args, "")

IsPattern(v) == v.kind \in {"Instance", "DictionaryPattern"}
IsVariable(v) == v.kind = "Variable"
IsSome(v) == v.kind # "None"

Parameter(parameter, specializer) ==
    [parameter |-> parameter, specializer |-> specializer]

\* Values registered as constants by the host.
ExternalInstance(id) == [kind |-> "ExternalInstance", instance_id |-> id]
Unimportant == [kind |-> "String", instance_id |-> 0]

(***************************************************************************)
(* RuleParamMatch, widened by the two ways a match can end without a       *)
(* RuleParamMatch: Err(OperationalError) and a panic (unreachable!).       *)
(***************************************************************************)
MatchTrue == [res |-> "True", msg |-> "", index |-> 0]
MatchFalse(msg, index) == [res |-> "False", msg |-> msg, index |-> index]
OperationalError == [res |-> "OperationalError", msg |-> "InvalidState", index |-> 0]
Panic == [res |-> "Panic", msg |-> "unreachable", index |-> 0]

Range(s) == {s[i] : i \in DOMAIN s}

\* kb.rs param_fields_match: every prototype field is a rule field of equal value.
param_fields_match_keys_only(prototype_fields, rule_fields) ==
    \A k \in DOMAIN prototype_fields : k \in DOMAIN rule_fields

param_fields_match(prototype_fields, rule_fields) ==
    \A k \in DOMAIN prototype_fields :
        IF k \in DOMAIN rule_fields
        THEN rule_fields[k] = prototype_fields[k]
        ELSE FALSE

\* kb.rs:199-200: the rule class's MRO holds the prototype class's instance id.
rule_mro_contains_reversed(rule_mro, instance_id) ==
    Len(rule_mro) > 0 /\ rule_mro[1] = instance_id

rule_mro_contains(rule_mro, instance_id) ==
    instance_id \in Range(rule_mro)

\* check_pattern_param reading the MRO of the prototype's class.
check_pattern_param_with_prototype_mro(index, rule_pattern, prototype_pattern) ==
    IF prototype_pattern.kind = "Instance" /\ rule_pattern.kind = "Instance"
    THEN IF prototype_pattern.tag = rule_pattern.tag
         THEN IF param_fields_match(prototype_pattern.fields, rule_pattern.fields)
              THEN MatchTrue
              ELSE MatchFalse("specializer fields did not match", index)
         ELSE IF /\ prototype_pattern.tag \in DOMAIN constants
                 /\ constants[prototype_pattern.tag].kind = "ExternalInstance"
              THEN IF prototype_pattern.tag \in DOMAIN mro
                   THEN IF ~rule_mro_contains(mro[prototype_pattern.tag],
                                constants[prototype_pattern.tag].instance_id)
                        THEN MatchFalse("must be a subclass", index)
                        ELSE IF ~param_fields_match(prototype_pattern.fields,
                                                    rule_pattern.fields)
                             THEN MatchFalse("specializer fields did not match", index)
                             ELSE MatchTrue
                   ELSE OperationalError
              ELSE Panic
    ELSE IF /\ prototype_pattern.kind = "DictionaryPattern"
            /\ rule_pattern.kind \in {"DictionaryPattern", "Instance"}
    THEN IF param_fields_match(prototype_pattern.fields, rule_pattern.fields)
         THEN MatchTrue
         ELSE MatchFalse("Specializer mismatch", index)
    ELSE IF /\ prototype_pattern.kind = "Instance"
            /\ rule_pattern.kind = "DictionaryPattern"
            /\ prototype_pattern.tag = "Dictionary"
    THEN IF param_fields_match(prototype_pattern.fields, rule_pattern.fields)
         THEN MatchTrue
         ELSE MatchFalse("Specializer mismatch", index)
    ELSE MatchFalse("Mismatch", index)

check_pattern_param(index, rule_pattern, prototype_pattern) ==
    IF prototype_pattern.kind = "Instance" /\ rule_pattern.kind = "Instance"
    THEN IF prototype_pattern.tag = rule_pattern.tag
         THEN IF param_fields_match(prototype_pattern.fields, rule_pattern.fields)
              THEN MatchTrue
              ELSE MatchFalse("specializer fields did not match", index)
         ELSE IF /\ prototype_pattern.tag \in DOMAIN constants
                 /\ constants[prototype_pattern.tag].kind = "ExternalInstance"
              THEN IF rule_pattern.tag \in DOMAIN mro
                   THEN IF ~rule_mro_contains(mro[rule_pattern.tag],
                                constants[prototype_pattern.tag].instance_id)
                        THEN MatchFalse("must be a subclass", index)
                        ELSE IF ~param_fields_match(prototype_pattern.fields,
                                                    rule_pattern.fields)
                             THEN MatchFalse("specializer fields did not match", index)
                             ELSE MatchTrue
                   ELSE OperationalError
              ELSE Panic
    ELSE IF /\ prototype_pattern.kind = "DictionaryPattern"
            /\ rule_pattern.kind \in {"DictionaryPattern", "Instance"}
    THEN IF param_fields_match(prototype_pattern.fields, rule_pattern.fields)
         THEN MatchTrue
         ELSE MatchFalse("Specializer mismatch", index)
    ELSE IF /\ prototype_pattern.kind = "Instance"
            /\ rule_pattern.kind = "DictionaryPattern"
            /\ prototype_pattern.tag = "Dictionary"
    THEN IF param_fields_match(prototype_pattern.fields, rule_pattern.fields)
         THEN MatchTrue
         ELSE MatchFalse("Specializer mismatch", index)
    ELSE MatchFalse("Mismatch", index)

\* kb.rs:264: every element of the prototype list occurs in the rule list.
list_all_contained_same_length(prototype_list, rule_list) ==
    /\ Len(prototype_list) = Len(rule_list)
    /\ \A i \in DOMAIN prototype_list : prototype_list[i] = rule_list[i]

list_all_contained(prototype_list, rule_list) ==
    \A i \in DOMAIN prototype_list : prototype_list[i] \in Range(rule_list)

check_value_param(index, rule_value, prototype_value) ==
    IF prototype_value.kind = "List" /\ rule_value.kind = "List"
    THEN IF list_all_contained(prototype_value.items, rule_value.items)
         THEN MatchTrue
         ELSE MatchFalse("expected list", index)
    ELSE IF prototype_value.kind = "Dictionary" /\ rule_value.kind = "Dictionary"
    THEN IF param_fields_match(prototype_value.fields, rule_value.fields)
         THEN MatchTrue
         ELSE MatchFalse("expected Dictionary with fields", index)
    ELSE IF prototype_value = rule_value
         THEN MatchTrue
         ELSE MatchFalse("Rule value != prototype value", index)

\* kb.rs:336-352: the tag an instance pattern must carry for a literal.
literal_matches_tag_numbers_alike(rule_value, tag, prototype_fields) ==
    IF rule_value.kind = "String" THEN (IF tag = "String" THEN "True" ELSE "False")
    ELSE IF rule_value.kind \in {"Integer", "Float"}
    THEN (IF tag \in {"Integer", "Float"} THEN "True" ELSE "False")
    ELSE IF rule_value.kind = "Boolean" THEN (IF tag = "Boolean" THEN "True" ELSE "False")
    ELSE IF rule_value.kind = "List" THEN (IF tag = "List" THEN "True" ELSE "False")
    ELSE IF rule_value.kind = "Dictionary"
    THEN (IF tag = "Dictionary" /\ param_fields_match(prototype_fields, rule_value.fields)
          THEN "True" ELSE "False")
    ELSE "Panic"

literal_matches_tag(rule_value, tag, prototype_fields) ==
    IF rule_value.kind = "String" THEN (IF tag = "String" THEN "True" ELSE "False")
    ELSE IF rule_value.kind = "Integer" THEN (IF tag = "Integer" THEN "True" ELSE "False")
    ELSE IF rule_value.kind = "Float" THEN (IF tag = "Float" THEN "True" ELSE "False")
    ELSE IF rule_value.kind = "Boolean" THEN (IF tag = "Boolean" THEN "True" ELSE "False")
    ELSE IF rule_value.kind = "List" THEN (IF tag = "List" THEN "True" ELSE "False")
    ELSE IF rule_value.kind = "Dictionary"
    THEN (IF tag = "Dictionary" /\ param_fields_match(prototype_fields, rule_value.fields)
          THEN "True" ELSE "False")
    ELSE "Panic"

\* kb.rs:322-376: the rule carries a value, the prototype a pattern specializer.
check_literal_against_pattern(index, rule_value, prototype_spec) ==
    IF prototype_spec.kind = "Instance"
    THEN LET m == literal_matches_tag(rule_value, prototype_spec.tag, prototype_spec.fields)
         IN  IF m = "Panic" THEN Panic
             ELSE IF m = "True" THEN MatchTrue
             ELSE MatchFalse("Rule prototype expected tag", index)
    ELSE IF rule_value.kind = "Dictionary"
         THEN IF param_fields_match(prototype_spec.fields, rule_value.fields)
              THEN MatchTrue
              ELSE MatchFalse("expected Dictionary with fields", index)
         ELSE MatchFalse("expected Dictionary", index)

\* kb.rs:379: the arm of a prototype parameter that has no specializer.
prototype_is_wildcard_for_variables(pp, ps, rp, rs) ==
    IsVariable(pp) /\ ~IsSome(ps) /\ IsVariable(rp)

prototype_is_wildcard(pp, ps, rp, rs) ==
    IsVariable(pp) /\ ~IsSome(ps)

\* kb.rs:315: the prototype has a specializer and the rule is a bare variable.
rule_lacks_specializer_never(pp, ps, rp, rs) == FALSE

rule_lacks_specializer(pp, ps, rp, rs) ==
    IsVariable(pp) /\ IsSome(ps) /\ IsVariable(rp) /\ ~IsSome(rs)

check_param(index, rule_par, prototype_par) ==
    LET pp == prototype_par.parameter
        ps == prototype_par.specializer
        rp == rule_par.parameter
        rs == rule_par.specializer
    IN  IF IsVariable(pp) /\ IsPattern(ps) /\ IsVariable(rp) /\ IsPattern(rs)
        THEN check_pattern_param(index, rs, ps)
        ELSE IF rule_lacks_specializer(pp, ps, rp, rs)
        THEN MatchFalse("Invalid rule parameter", index)
        ELSE IF IsVariable(pp) /\ IsPattern(ps) /\ IsVariable(rp) /\ IsSome(rs)
        THEN check_literal_against_pattern(index, rs, ps)
        ELSE IF IsVariable(pp) /\ IsPattern(ps) /\ ~IsSome(rs)
        THEN check_literal_against_pattern(index, rp, ps)
        ELSE IF prototype_is_wildcard(pp, ps, rp, rs)
        THEN MatchTrue
        ELSE IF IsVariable(pp) /\ IsSome(ps) /\ IsVariable(rp) /\ IsSome(rs)
        THEN check_value_param(index, rs, ps)
        ELSE IF IsVariable(pp) /\ IsSome(ps) /\ ~IsSome(rs)
        THEN check_value_param(index, rp, ps)
        ELSE IF ~IsSome(ps) /\ ~IsSome(rs)
        THEN check_value_param(index, rp, pp)
        ELSE MatchFalse("Invalid parameter", index)

(***************************************************************************)
(* The values the model draws parameters, classes and registrations from.  *)
(* No Integer literal is numerically equal to the Float literal, so equal  *)
(* records are exactly the equal Values.                                   *)
(***************************************************************************)
Ints == {Integer("1"), Integer("2")}
Scalars == Ints \cup {Float("1.5"), String("hi"), Boolean("true")}
Lists == {List(s) : s \in UNION {[1..n -> Ints] : n \in 0..MaxLen}}
FieldMaps == {NoFields,
              [id |-> Integer("1")],
              [id |-> Integer("1"), name |-> String("Dave")],
              [id |-> Integer("2")]}
Literals == Scalars \cup Lists \cup {Dictionary(f) : f \in FieldMaps}

Classes == {"Fruit", "Citrus"}
ClassId == [Fruit |-> 1, Citrus |-> 2]
PrimitiveTags == {"Integer", "Float", "String", "Boolean", "List", "Dictionary"}
MroLists == {<<1>>, <<2, 1>>}
ConstantValues(name) == {ExternalInstance(ClassId[name]), Unimportant}

InstancePatterns ==
    {InstancePattern(t, NoFields) : t \in Classes \cup PrimitiveTags}
    \cup {InstancePattern(t, [id |-> Integer("1")]) : t \in Classes}
    \cup {InstancePattern("Dictionary", f) : f \in FieldMaps}
DictionaryPatterns == {DictionaryPattern(f) : f \in FieldMaps}
Specializers == InstancePatterns \cup DictionaryPatterns \cup Literals
Params ==
    {Parameter(Variable("x"), s) : s \in {NoneValue} \cup Specializers}
    \cup {Parameter(l, NoneValue) : l \in Literals}

(***************************************************************************)
(* The state after KnowledgeBase::new(), and the value `ret` holds before  *)
(* any call.                                                               *)
(***************************************************************************)
Empty == <<>>
\* The first value a Counter hands out.
FirstId == 1
Put(f, k, v) == [x \in DOMAIN f \cup {k} |-> IF x = k THEN v ELSE f[x]]

Ret(op, res, msg, index) == [op |-> op, res |-> res, msg |-> msg, index |-> index]
\* What a function returning () leaves in ret; also ret's value before any call.
Unit == Ret("", "Ok", "", 0)
NoParam == Parameter(NoneValue, NoneValue)
NoBlocks == [declarations |-> Empty, implications |-> Empty,
             actors |-> {}, resources |-> {}]

\* kb.rs constant: define (or overwrite) a constant.
constant(name, value) ==
    /\ constants' = Put(constants, name, value)
    /\ ret' = Unit
    /\ UNCHANGED <<source_state, mro, rules, rule_prototypes, resource_blocks,
                   rule_param, prototype_param>>

\* kb.rs add_mro: the class must be a registered constant.
add_mro(name, m) ==
    /\ IF name \in DOMAIN constants
       THEN mro' = Put(mro, name, m) /\ ret' = Ret("add_mro", "Ok", "", 0)
       ELSE UNCHANGED mro /\ ret' = Ret("add_mro", "ParameterError", name, 0)
    /\ UNCHANGED <<source_state, constants, rules, rule_prototypes, resource_blocks,
                   rule_param, prototype_param>>

\* One call of check_param on the drawn pair of parameters, at position 1.
CheckParam ==
    /\ LET m == check_param(1, rule_param, prototype_param)
       IN  ret' = Ret("check_param", m.res, m.msg, m.index)
    /\ UNCHANGED <<source_state, constants, mro, rules, rule_prototypes, resource_blocks,
                   rule_param, prototype_param>>

InitMatch ==
    /\ loaded_files = Empty
    /\ loaded_content = Empty
    /\ sources = Empty
    /\ id_counter = FirstId
    /\ gensym_counter = FirstId
    /\ inline_queries = <<>>
    /\ constants = Empty
    /\ mro = Empty
    /\ rules = Empty
    /\ rule_prototypes = Empty
    /\ resource_blocks = NoBlocks
    /\ rule_param \in Params
    /\ prototype_param \in Params
    /\ ret = Unit

NextMatch ==
    \/ \E name \in Classes : \E value \in ConstantValues(name) : constant(name, value)
    \/ \E name \in Classes : \E m \in MroLists : add_mro(name, m)
    \/ CheckParam

SpecMatch == InitMatch /\ [][NextMatch]_vars

(***************************************************************************)
(* Whole-rule matching and the rule prototype validator.                   *)
(***************************************************************************)
Rule(name, params, body) == [name |-> name, params |-> params, body |-> body]

First(S) == CHOOSE x \in S : \A y \in S : x <= y

\* kb.rs:419, 123: collect::<PolarResult<Vec<_>>>() evaluates the matches in
\* order and stops at the first that does not return a RuleParamMatch.
Stops(results) == {i \in DOMAIN results : results[i].res \in {"OperationalError", "Panic"}}

\* kb.rs:404-408: the message of two rules of different arities.
DifferentArities(rule, prototype) ==
    "Different number of parameters. Rule has " \o ToString(Len(rule.params))
        \o " parameter(s) but prototype has " \o ToString(Len(prototype.params))
        \o "."

\* rule_params_match keeping the message of the last failing parameter.
rule_params_match_last_failure(rule, prototype) ==
    IF Len(rule.params) # Len(prototype.params)
    THEN MatchFalse(DifferentArities(rule, prototype), 0)
    ELSE LET results == [i \in 1..Len(rule.params) |->
                            check_param(i, rule.params[i], prototype.params[i])]
             fails == {i \in DOMAIN results : results[i].res = "False"}
         IN  IF Stops(results) # {} THEN results[First(Stops(results))]
             ELSE IF fails # {}
                  THEN results[CHOOSE i \in fails : \A j \in fails : j <= i]
             ELSE MatchTrue

rule_params_match(rule, prototype) ==
    IF Len(rule.params) # Len(prototype.params)
    THEN MatchFalse(DifferentArities(rule, prototype), 0)
    ELSE LET results == [i \in 1..Len(rule.params) |->
                            check_param(i, rule.params[i], prototype.params[i])]
             fails == {i \in DOMAIN results : results[i].res = "False"}
         IN  IF Stops(results) # {} THEN results[First(Stops(results))]
             ELSE IF fails # {} THEN results[First(fails)]
             ELSE MatchTrue

\* kb.rs:125: results.iter().any(..): one matching prototype is enough.
found_match_all(results) ==
    \A i \in DOMAIN results : results[i].res = "True"

found_match(results) ==
    \E i \in DOMAIN results : results[i].res = "True"

\* validate_rule asking for a matching prototype before it looks for errors.
validate_rule_match_first(rule, prototypes) ==
    LET results == [i \in DOMAIN prototypes |-> rule_params_match(rule, prototypes[i])]
    IN  IF found_match(results) THEN "Ok"
        ELSE IF Stops(results) # {} THEN results[First(Stops(results))].res
        ELSE "InvalidRule"

\* kb.rs:114-146: the body of validate_rules' loop for one rule.
validate_rule(rule, prototypes) ==
    LET results == [i \in DOMAIN prototypes |-> rule_params_match(rule, prototypes[i])]
    IN  IF Stops(results) # {} THEN results[First(Stops(results))].res
        ELSE IF found_match(results) THEN "Ok"
        ELSE "InvalidRule"

\* validate_rules returns at the first rule that fails, in the iteration order
\* of two HashMaps: any failing rule may be the one reported.
validate_rules_outcomes ==
    LET failing == UNION {{validate_rule(rules[n][i], rule_prototypes[n]) :
                                i \in DOMAIN rules[n]} :
                            n \in DOMAIN rules \cap DOMAIN rule_prototypes} \ {"Ok"}
    IN  IF failing = {} THEN {"Ok"} ELSE failing

validate_rules ==
    /\ \E outcome \in validate_rules_outcomes :
            ret' = Ret("validate_rules", outcome, "", 0)
    /\ UNCHANGED <<source_state, constants, mro, rules, rule_prototypes, resource_blocks,
                   rule_param, prototype_param>>

RulesOf(name) == IF name \in DOMAIN rules THEN rules[name] ELSE <<>>
PrototypesOf(name) == IF name \in DOMAIN rule_prototypes THEN rule_prototypes[name] ELSE <<>>
Count(f) == IF DOMAIN f = {} THEN 0
            ELSE LET RECURSIVE sum(_)
                     sum(D) == IF D = {} THEN 0
                               ELSE LET d == CHOOSE d \in D : TRUE
                                    IN  Len(f[d]) + sum(D \ {d})
                 IN  sum(DOMAIN f)

\* kb.rs add_rule: append to (or create) the GenericRule of that name.
with_rule(generic_rules, rule) ==
    Put(generic_rules, rule.name,
        Append(IF rule.name \in DOMAIN generic_rules
               THEN generic_rules[rule.name] ELSE <<>>, rule))

add_rule(rule) ==
    /\ rules' = with_rule(rules, rule)
    /\ ret' = Unit
    /\ UNCHANGED <<source_state, constants, mro, rule_prototypes, resource_blocks,
                   rule_param, prototype_param>>

add_rule_prototype(prototype) ==
    /\ rule_prototypes' =
            Put(rule_prototypes, prototype.name,
                Append(PrototypesOf(prototype.name), prototype))
    /\ ret' = Unit
    /\ UNCHANGED <<source_state, constants, mro, rules, resource_blocks,
                   rule_param, prototype_param>>

\* kb.rs clear_rules: the rules, the prototypes and the source bookkeeping.
\* clear_rules starting the source ids afresh as well.
clear_rules_and_ids ==
    /\ rules' = Empty
    /\ rule_prototypes' = Empty
    /\ sources' = Empty
    /\ inline_queries' = <<>>
    /\ loaded_content' = Empty
    /\ loaded_files' = Empty
    /\ id_counter' = FirstId
    /\ ret' = Unit
    /\ UNCHANGED <<constants, mro, resource_blocks, gensym_counter,
                   rule_param, prototype_param>>

clear_rules ==
    /\ rules' = Empty
    /\ rule_prototypes' = Empty
    /\ sources' = Empty
    /\ inline_queries' = <<>>
    /\ loaded_content' = Empty
    /\ loaded_files' = Empty
    /\ ret' = Unit
    /\ UNCHANGED <<constants, mro, resource_blocks, id_counter, gensym_counter,
                   rule_param, prototype_param>>

\* The rules and prototypes the host offers.
OnFruit(v) == Parameter(Variable(v), InstancePattern("Fruit", NoFields))
OnCitrus(v) == Parameter(Variable(v), InstancePattern("Citrus", NoFields))
RuleUniverse ==
    {Rule("f", <<OnFruit("x")>>, And(<<>>)),
     Rule("f", <<OnCitrus("x")>>, And(<<>>)),
     Rule("f", <<OnCitrus("x"), OnFruit("y")>>, And(<<>>)),
     Rule("f", <<OnFruit("x"), OnCitrus("y")>>, And(<<>>)),
     Rule("g", <<OnFruit("x")>>, And(<<>>))}

\* One call of rule_params_match on the one rule and the one prototype held.
TheRule == rules["f"][1]
ThePrototype == rule_prototypes["f"][1]
RuleParamsMatch ==
    /\ LET m == rule_params_match(TheRule, ThePrototype)
       IN  ret' = Ret("rule_params_match", m.res, m.msg, m.index)
    /\ UNCHANGED <<source_state, constants, mro, rules, rule_prototypes, resource_blocks,
                   rule_param, prototype_param>>

\* The rules matched as wholes: none to two parameters, each on a class.
ParamLists ==
    UNION {[1..n -> {OnFruit("x"), OnCitrus("x")}] : n \in 0..MaxLen}
InitRule ==
    /\ loaded_files = Empty
    /\ loaded_content = Empty
    /\ sources = Empty
    /\ id_counter = FirstId
    /\ gensym_counter = FirstId
    /\ inline_queries = <<>>
    /\ constants = Empty
    /\ mro = Empty
    /\ \E params \in ParamLists : rules = Put(Empty, "f", <<Rule("f", params, And(<<>>))>>)
    /\ \E params \in ParamLists :
            rule_prototypes = Put(Empty, "f", <<Rule("f", params, And(<<>>))>>)
    /\ resource_blocks = NoBlocks
    /\ rule_param = NoParam
    /\ prototype_param = NoParam
    /\ ret = Unit

NextRule ==
    \/ \E name \in Classes : \E value \in ConstantValues(name) : constant(name, value)
    \/ \E name \in Classes : \E m \in MroLists : add_mro(name, m)
    \/ RuleParamsMatch

SpecRule == InitRule /\ [][NextRule]_vars

Init ==
    /\ loaded_files = Empty
    /\ loaded_content = Empty
    /\ sources = Empty
    /\ id_counter = FirstId
    /\ gensym_counter = FirstId
    /\ inline_queries = <<>>
    /\ constants = Empty
    /\ mro = Empty
    /\ rules = Empty
    /\ rule_prototypes = Empty
    /\ resource_blocks = NoBlocks
    /\ rule_param = NoParam
    /\ prototype_param = NoParam
    /\ ret = Unit

Next ==
    \/ \E name \in Classes : \E value \in ConstantValues(name) : constant(name, value)
    \/ \E name \in Classes : \E m \in MroLists : add_mro(name, m)
    \/ \E rule \in RuleUniverse :
            Count(rules) + Count(rule_prototypes) < MaxRules /\ add_rule(rule)
    \/ \E prototype \in RuleUniverse :
            Count(rules) + Count(rule_prototypes) < MaxRules
                /\ add_rule_prototype(prototype)
    \/ validate_rules
    \/ clear_rules

Spec == Init /\ [][Next]_vars

(***************************************************************************)
(* Resource blocks (sugar.rs).  A Term holding a string or a symbol is     *)
(* modelled by the text it holds; an Option is None or Some(x).            *)
(***************************************************************************)
None == <<>>
Some(x) == <<x>>
OrEmpty(option) == IF option = None THEN <<>> ELSE option[1]

Ok(value) == [ok |-> TRUE, value |-> value, kind |-> "Ok", msg |-> ""]
Err(error) == [ok |-> FALSE, value |-> <<>>, kind |-> error.kind, msg |-> error.msg]
ParseSugar(msg) == [kind |-> "ParseError", msg |-> msg]
TypeError(msg) == [kind |-> "TypeError", msg |-> msg]

\* to_polar of a string term: the string in double quotes.  The messages
\* below are those of the source up to their first full stop, without the
\* backquotes around a quoted rule body.
to_polar(string) == "\"" \o string \o "\""

\* sugar.rs Declaration.
Role == [kind |-> "Role", relation_type |-> ""]
Permission == [kind |-> "Permission", relation_type |-> ""]
Relation(relation_type) == [kind |-> "Relation", relation_type |-> relation_type]

\* sugar.rs Implication: `head if implier;` or `head if implier on relation;`.
Implication(head, implier, relation) == [head |-> head, body |-> <<implier, relation>>]

ResourceBlock(entity_type, resource, roles, permissions, relations, implications) ==
    [entity_type |-> entity_type, resource |-> resource, roles |-> roles,
     permissions |-> permissions, relations |-> relations,
     implications |-> implications]

\* as_relation_type taking the type of any declaration.
as_relation_type_of_any(declaration) == Ok(declaration.relation_type)

as_relation_type(declaration) ==
    IF declaration.kind = "Relation"
    THEN Ok(declaration.relation_type)
    ELSE Err(TypeError("Expected Relation; got: " \o declaration.kind))

as_rule_name(declaration) ==
    CASE declaration.kind = "Role" -> "has_role"
      [] declaration.kind = "Permission" -> "has_permission"
      [] declaration.kind = "Relation" -> "has_relation"

\* ResourceBlocks::clear, add and exists.
clear(blocks) == NoBlocks

add(blocks, entity_type, resource, declarations, implications) ==
    [declarations |-> Put(blocks.declarations, resource, declarations),
     implications |-> Put(blocks.implications, resource, implications),
     actors |-> IF entity_type = "Actor"
                THEN blocks.actors \cup {resource} ELSE blocks.actors,
     resources |-> IF entity_type = "Resource"
                   THEN blocks.resources \cup {resource} ELSE blocks.resources]

exists(blocks, resource) == resource \in DOMAIN blocks.declarations

get_declaration_in_resource_block(blocks, declaration, resource) ==
    IF declaration \in DOMAIN blocks.declarations[resource]
    THEN Ok(blocks.declarations[resource][declaration])
    ELSE Err(ParseSugar("Undeclared term " \o to_polar(declaration)
             \o " referenced in rule in the '" \o resource \o "' resource block."))

get_relation_type_in_resource_block(blocks, relation, resource) ==
    LET declaration == get_declaration_in_resource_block(blocks, relation, resource)
    IN  IF declaration.ok THEN as_relation_type(declaration.value) ELSE declaration

get_rule_name_for_declaration_in_resource_block(blocks, declaration, resource) ==
    LET found == get_declaration_in_resource_block(blocks, declaration, resource)
    IN  IF found.ok THEN Ok(as_rule_name(found.value)) ELSE found

\* The implier of `head if implier on relation` is looked up in the block of
\* the relation's type.
get_rule_name_in_current_block(blocks, declaration, relation, resource) ==
    get_rule_name_for_declaration_in_resource_block(blocks, declaration, resource)

\* One error for a missing related block and for a missing declaration in it.
get_rule_name_in_related_block_or_undeclared(blocks, declaration, relation, resource) ==
    LET related_block == get_relation_type_in_resource_block(blocks, relation, resource)
    IN  IF ~related_block.ok THEN related_block
        ELSE IF related_block.value \in DOMAIN blocks.declarations
                /\ declaration \in DOMAIN blocks.declarations[related_block.value]
        THEN Ok(as_rule_name(blocks.declarations[related_block.value][declaration]))
        ELSE Err(ParseSugar(resource \o ": Term " \o to_polar(declaration)
                 \o " not declared in related resource block '"
                 \o related_block.value \o "'."))

get_rule_name_for_declaration_in_related_resource_block(blocks, declaration, relation, resource) ==
    LET related_block == get_relation_type_in_resource_block(blocks, relation, resource)
    IN  IF ~related_block.ok THEN related_block
        ELSE IF related_block.value \in DOMAIN blocks.declarations
        THEN IF declaration \in DOMAIN blocks.declarations[related_block.value]
             THEN Ok(as_rule_name(blocks.declarations[related_block.value][declaration]))
             ELSE Err(ParseSugar(resource \o ": Term " \o to_polar(declaration)
                      \o " not declared in related resource block '"
                      \o related_block.value \o "'."))
        ELSE Err(ParseSugar(resource \o ": Relation " \o to_polar(relation)
                 \o " in rule body " \o to_polar(declaration) \o " on "
                 \o to_polar(relation) \o " has type '" \o related_block.value
                 \o "', but no such resource block exists."))

\* index_declarations: roles first, then permissions, then relations; the
\* first name that is already indexed ends the indexing with an error.
RECURSIVE index_roles(_, _, _, _)
index_roles(declarations, roles, i, resource) ==
    IF i > Len(roles) THEN Ok(declarations)
    ELSE IF roles[i] \in DOMAIN declarations
    THEN Err(ParseSugar(resource \o ": Duplicate declaration of "
             \o to_polar(roles[i]) \o " in the roles list."))
    ELSE index_roles(Put(declarations, roles[i], Role), roles, i + 1, resource)

RECURSIVE index_permissions_unless_repeated(_, _, _, _)
index_permissions_unless_repeated(declarations, permissions, i, resource) ==
    IF i > Len(permissions) THEN Ok(declarations)
    ELSE IF permissions[i] \in DOMAIN declarations
            /\ declarations[permissions[i]].kind = "Permission"
    THEN Err(ParseSugar(resource \o ": Duplicate declaration of "
             \o to_polar(permissions[i]) \o " in the permissions list."))
    ELSE index_permissions_unless_repeated(
            Put(declarations, permissions[i], Permission), permissions, i + 1, resource)

RECURSIVE index_permissions(_, _, _, _)
index_permissions(declarations, permissions, i, resource) ==
    IF i > Len(permissions) THEN Ok(declarations)
    ELSE IF permissions[i] \in DOMAIN declarations
    THEN IF declarations[permissions[i]].kind = "Permission"
         THEN Err(ParseSugar(resource \o ": Duplicate declaration of "
                  \o to_polar(permissions[i]) \o " in the permissions list."))
         ELSE Err(ParseSugar(resource \o ": " \o to_polar(permissions[i])
                  \o " declared as a permission but it was previously declared as a role."))
    ELSE index_permissions(Put(declarations, permissions[i], Permission),
                           permissions, i + 1, resource)

\* relations is the dictionary's fields in key order: pairs <<relation, type>>.
RECURSIVE index_relations(_, _, _, _)
index_relations(declarations, relations, i, resource) ==
    IF i > Len(relations) THEN Ok(declarations)
    ELSE IF relations[i][1] \in DOMAIN declarations
    THEN IF declarations[relations[i][1]].kind = "Role"
         THEN Err(ParseSugar(resource \o ": '" \o relations[i][1]
                  \o "' declared as a relation but it was previously declared as a role."))
         ELSE IF declarations[relations[i][1]].kind = "Permission"
         THEN Err(ParseSugar(resource \o ": '" \o relations[i][1]
                  \o "' declared as a relation but it was previously declared as a permission."))
         ELSE Err([kind |-> "Panic", msg |-> "duplicate dict keys aren't parseable"])
    ELSE index_relations(Put(declarations, relations[i][1], Relation(relations[i][2])),
                         relations, i + 1, resource)

index_declarations(roles, permissions, relations, resource) ==
    LET with_roles == index_roles(Empty, OrEmpty(roles), 1, resource)
    IN  IF ~with_roles.ok THEN with_roles
        ELSE LET with_permissions ==
                    index_permissions(with_roles.value, OrEmpty(permissions), 1, resource)
             IN  IF ~with_permissions.ok THEN with_permissions
                 ELSE index_relations(with_permissions.value, OrEmpty(relations),
                                      1, resource)

\* str::to_lowercase on the type names of this model.
to_lowercase(name) ==
    CASE name = "Org" -> "org"
      [] name = "Repo" -> "repo"
      [] OTHER -> name

\* resource_as_var with the suffix given to the names that lowercasing changed.
resource_as_var_suffix_when_changed(resource) ==
    LET lowercased == to_lowercase(resource)
    IN  Variable(IF lowercased # resource
                 THEN lowercased \o "_instance" ELSE lowercased)

\* The variable that stands for an instance of the resource.
resource_as_var(resource) ==
    LET lowercased == to_lowercase(resource)
    IN  Variable(IF lowercased = resource
                 THEN lowercased \o "_instance" ELSE lowercased)

implication_body_to_rule_body(body, resource, blocks) ==
    LET implier == body[1]
        resource_var == resource_as_var(resource)
        actor_var == Variable("actor")
    IN  IF body[2] # None
        THEN LET relation == body[2][1]
                 relation_type ==
                    get_relation_type_in_resource_block(blocks, relation, resource)
                 relation_type_var == resource_as_var(relation_type.value)
                 relation_call ==
                    Call("has_relation",
                         <<relation_type_var, String(relation), resource_var>>)
                 name == get_rule_name_for_declaration_in_related_resource_block(
                            blocks, implier, relation, resource)
             IN  IF ~relation_type.ok THEN relation_type
                 ELSE IF ~name.ok THEN name
                 ELSE Ok(And(<<relation_call,
                               Call(name.value,
                                    <<actor_var, String(implier), relation_type_var>>)>>))
        ELSE LET name == get_rule_name_for_declaration_in_resource_block(
                            blocks, implier, resource)
             IN  IF ~name.ok THEN name
                 ELSE Ok(And(<<Call(name.value,
                                    <<actor_var, String(implier), resource_var>>)>>))

\* The three parameters of a rewritten rule.
implication_head_to_params_resource_first(head, resource) ==
    <<Parameter(resource_as_var(resource), InstancePattern(resource, NoFields)),
      Parameter(String(head), NoneValue),
      Parameter(Variable("actor"), InstancePattern("Actor", NoFields))>>

implication_head_to_params(head, resource) ==
    <<Parameter(Variable("actor"), InstancePattern("Actor", NoFields)),
      Parameter(String(head), NoneValue),
      Parameter(resource_as_var(resource), InstancePattern(resource, NoFields))>>

\* Implication::as_rule: the rule name, then the parameters, then the body.
as_rule(implication, resource_block, blocks) ==
    LET name == get_rule_name_for_declaration_in_resource_block(
                    blocks, implication.head, resource_block)
        params == implication_head_to_params(implication.head, resource_block)
        body == implication_body_to_rule_body(implication.body, resource_block, blocks)
    IN  IF ~name.ok THEN name
        ELSE IF ~body.ok THEN body
        ELSE Ok(Rule(name.value, params, body.value))

is_constant(name) == name \in DOMAIN constants
is_registered_class(term) == is_constant(term)

\* The checks below return the errors they found, in order.
check_that_block_resource_is_registered_as_a_class(resource) ==
    IF ~is_registered_class(resource)
    THEN <<ParseSugar("Invalid resource block '" \o resource \o "' -- '"
                      \o resource \o "' must be a registered class.")>>
    ELSE <<>>

check_for_duplicate_resource_blocks_never(blocks, resource) == <<>>

check_for_duplicate_resource_blocks(blocks, resource) ==
    IF exists(blocks, resource)
    THEN <<ParseSugar("Duplicate declaration of '" \o resource \o "' resource block.")>>
    ELSE <<>>

\* relation_type_is_registered asking for an MRO of the type instead.
relation_type_has_mro(relation, kind) ==
    IF kind \notin DOMAIN mro
    THEN <<ParseSugar("Type '" \o kind \o "' in relation '" \o relation \o ": "
                      \o kind \o "' must be registered as a class.")>>
    ELSE <<>>

relation_type_is_registered(relation, kind) ==
    IF ~is_registered_class(kind)
    THEN <<ParseSugar("Type '" \o kind \o "' in relation '" \o relation \o ": "
                      \o kind \o "' must be registered as a class.")>>
    ELSE <<>>

\* A check of the impliers too, which add_to_kb does not make.
RECURSIVE check_that_implications_are_declared_locally(_, _, _)
check_that_implications_are_declared_locally(implications, declarations, resource) ==
    IF implications = <<>> THEN <<>>
    ELSE (IF Head(implications).head \notin DOMAIN declarations
             \/ Head(implications).body[1] \notin DOMAIN declarations
          THEN <<ParseSugar("Undeclared term " \o to_polar(Head(implications).head)
                            \o " referenced in rule in '" \o resource
                            \o "' resource block.")>>
          ELSE <<>>)
         \o check_that_implications_are_declared_locally(
                Tail(implications), declarations, resource)

RECURSIVE check_that_implication_heads_are_declared_locally(_, _, _)
check_that_implication_heads_are_declared_locally(implications, declarations, resource) ==
    IF implications = <<>> THEN <<>>
    ELSE (IF Head(implications).head \notin DOMAIN declarations
          THEN <<ParseSugar("Undeclared term " \o to_polar(Head(implications).head)
                            \o " referenced in rule in '" \o resource
                            \o "' resource block.")>>
          ELSE <<>>)
         \o check_that_implication_heads_are_declared_locally(
                Tail(implications), declarations, resource)

\* The errors of all relation declarations; the two HashMaps are walked in an
\* unspecified order, so any of them may be the first.
check_all_relation_types_have_been_registered ==
    UNION {{relation_type_is_registered(
                declaration, resource_blocks.declarations[resource][declaration].relation_type) :
              declaration \in {d \in DOMAIN resource_blocks.declarations[resource] :
                    resource_blocks.declarations[resource][d].kind = "Relation"}} :
           resource \in DOMAIN resource_blocks.declarations} \ {<<>>}

\* ResourceBlock::add_to_kb.
add_to_kb(block) ==
    LET registered == check_that_block_resource_is_registered_as_a_class(block.resource)
        duplicate == check_for_duplicate_resource_blocks(resource_blocks, block.resource)
        declarations == index_declarations(block.roles, block.permissions,
                                           block.relations, block.resource)
        errors == registered \o duplicate
                    \o check_that_implication_heads_are_declared_locally(
                            block.implications, declarations.value, block.resource)
    IN  /\ IF ~declarations.ok
           THEN /\ ret' = Ret("add_to_kb", declarations.kind, declarations.msg, 0)
                /\ UNCHANGED resource_blocks
           ELSE IF errors # <<>>
           THEN /\ ret' = Ret("add_to_kb", errors[1].kind, errors[1].msg, 0)
                /\ UNCHANGED resource_blocks
           ELSE /\ resource_blocks' = add(resource_blocks, block.entity_type,
                                          block.resource, declarations.value,
                                          block.implications)
                /\ ret' = Ret("add_to_kb", "Ok", "", 0)
        /\ UNCHANGED <<source_state, constants, mro, rules, rule_prototypes,
                       rule_param, prototype_param>>

\* The orders in which a HashMap with these keys can be walked.
Orders(keys) ==
    {order \in [1..Cardinality(keys) -> keys] :
        \A i, j \in DOMAIN order : order[i] = order[j] => i = j}

\* kb.rs:602-609: every implication of every block, as a rule or an error.
RECURSIVE rewrite_blocks(_, _)
rewrite_blocks(order, i) ==
    IF i > Cardinality(DOMAIN order) THEN <<>>
    ELSE LET implications == resource_blocks.implications[order[i]]
         IN  [j \in DOMAIN implications |->
                    as_rule(implications[j], order[i], resource_blocks)]
             \o rewrite_blocks(order, i + 1)

add_rules_first_only(generic_rules, results) ==
    IF results = <<>> THEN generic_rules
    ELSE with_rule(generic_rules, Head(results).value)

RECURSIVE add_rules(_, _)
add_rules(generic_rules, results) ==
    IF results = <<>> THEN generic_rules
    ELSE add_rules(with_rule(generic_rules, Head(results).value), Tail(results))

IsErr(result) == ~result.ok

\* kb.rs rewrite_implications.
\* rewrite_implications leaving the blocks in place when an implication fails.
rewrite_implications_clearing_on_success ==
    LET errors == check_all_relation_types_have_been_registered
    IN  /\ IF errors # {}
           THEN /\ resource_blocks' = clear(resource_blocks)
                /\ \E error \in errors :
                        ret' = Ret("rewrite_implications", error[1].kind, error[1].msg, 0)
                /\ UNCHANGED rules
           ELSE \E order \in Orders(DOMAIN resource_blocks.implications) :
                    LET results == rewrite_blocks(order, 1)
                        failed == SelectSeq(results, IsErr)
                    IN  /\ resource_blocks' = IF failed # <<>> THEN resource_blocks
                                               ELSE clear(resource_blocks)
                        /\ IF failed # <<>>
                           THEN /\ ret' = Ret("rewrite_implications",
                                              failed[1].kind, failed[1].msg, 0)
                                /\ UNCHANGED rules
                           ELSE /\ rules' = add_rules(rules, results)
                                /\ ret' = Ret("rewrite_implications", "Ok", "", 0)
        /\ UNCHANGED <<source_state, constants, mro, rule_prototypes, rule_param, prototype_param>>

rewrite_implications ==
    LET errors == check_all_relation_types_have_been_registered
    IN  /\ IF errors # {}
           THEN /\ resource_blocks' = clear(resource_blocks)
                /\ \E error \in errors :
                        ret' = Ret("rewrite_implications", error[1].kind, error[1].msg, 0)
                /\ UNCHANGED rules
           ELSE \E order \in Orders(DOMAIN resource_blocks.implications) :
                    LET results == rewrite_blocks(order, 1)
                        failed == SelectSeq(results, IsErr)
                    IN  /\ resource_blocks' = clear(resource_blocks)
                        /\ IF failed # <<>>
                           THEN /\ ret' = Ret("rewrite_implications",
                                              failed[1].kind, failed[1].msg, 0)
                                /\ UNCHANGED rules
                           ELSE /\ rules' = add_rules(rules, results)
                                /\ ret' = Ret("rewrite_implications", "Ok", "", 0)
        /\ UNCHANGED <<source_state, constants, mro, rule_prototypes, rule_param, prototype_param>>

\* The classes the host registers and the blocks a policy offers.
BlockClasses == {"Org", "Repo", "team"}

OrgBlock ==
    ResourceBlock("Resource", "Org", Some(<<"owner", "member">>), Some(<<"invite">>),
                  None, <<Implication("member", "owner", None),
                          Implication("invite", "member", None)>>)
RepoBlock ==
    ResourceBlock("Resource", "Repo", Some(<<"reader">>), Some(<<"member">>),
                  Some(<<<<"parent", "Org">>>>),
                  <<Implication("reader", "member", Some("parent")),
                    Implication("parent", "reader", None)>>)
TeamBlock ==
    ResourceBlock("Actor", "team", Some(<<"lead">>), Some(<<"read">>), None,
                  <<Implication("read", "lead", None)>>)
ClashingBlock ==
    ResourceBlock("Resource", "Org", Some(<<"owner">>), Some(<<"owner">>), None,
                  <<>>)
UndeclaredHeadBlock ==
    ResourceBlock("Resource", "Repo", Some(<<"reader">>), None, None,
                  <<Implication("writer", "reader", None)>>)
UndeclaredImplierBlock ==
    ResourceBlock("Resource", "Repo", Some(<<"reader">>), None,
                  Some(<<<<"parent", "Org">>>>),
                  <<Implication("reader", "admin", Some("parent"))>>)
NotARelationBlock ==
    ResourceBlock("Resource", "Repo", Some(<<"reader">>), None, None,
                  <<Implication("reader", "member", Some("reader"))>>)
OrgActorBlock ==
    ResourceBlock("Actor", "Org", Some(<<"member">>), None, None, <<>>)
UndeclaredRelationBlock ==
    ResourceBlock("Resource", "Repo", Some(<<"reader">>), None, None,
                  <<Implication("reader", "member", Some("parent"))>>)
RelationOnlyBlock ==
    ResourceBlock("Resource", "Repo", None, None,
                  Some(<<<<"parent", "Org">>>>), <<>>)
PermissionAsRelationBlock ==
    ResourceBlock("Resource", "Repo", Some(<<"reader">>), Some(<<"read">>), None,
                  <<Implication("reader", "member", Some("read"))>>)
SelfRelatedBlock ==
    ResourceBlock("Resource", "Repo", Some(<<"reader", "admin">>), None,
                  Some(<<<<"parent", "Repo">>>>),
                  <<Implication("reader", "admin", Some("parent"))>>)
BlockUniverse ==
    {OrgBlock, RepoBlock, TeamBlock, ClashingBlock, UndeclaredHeadBlock,
     UndeclaredImplierBlock, NotARelationBlock, OrgActorBlock,
     UndeclaredRelationBlock, RelationOnlyBlock, PermissionAsRelationBlock,
     SelfRelatedBlock}

NextBlocks ==
    \/ \E name \in BlockClasses : constant(name, Unimportant)
    \/ \E block \in BlockUniverse :
            Cardinality(DOMAIN resource_blocks.declarations) < MaxBlocks
                /\ add_to_kb(block)
    \/ Count(rules) < MaxRules /\ rewrite_implications
    \/ clear_rules

SpecBlocks == Init /\ [][NextBlocks]_vars

\* index_declarations on its own: one call on declarations of a block of Org.
DeclaredNames == {"egg", "tootsie"}
NameLists == UNION {[1..n -> DeclaredNames] : n \in 0..MaxLen}
RelationDicts ==
    {<<>>, <<<<"egg", "Roll">>>>, <<<<"tootsie", "Roll">>>>,
     <<<<"egg", "Roll">>, <<"tootsie", "Org">>>>}
OptionOf(S) == {None} \cup {Some(x) : x \in S}

IndexDeclarations(roles, permissions, relations, resource) ==
    /\ LET indexed == index_declarations(roles, permissions, relations, resource)
       IN  ret' = [op |-> "index_declarations", res |-> indexed.kind,
                   msg |-> indexed.msg, index |-> 0, value |-> indexed.value,
                   args |-> <<roles, permissions, relations, resource>>]
    /\ UNCHANGED <<constants, mro, rules, rule_prototypes, resource_blocks,
                   source_state, rule_param, prototype_param>>

NextIndex ==
    \E roles \in OptionOf(NameLists), permissions \in OptionOf(NameLists),
       relations \in OptionOf(RelationDicts) :
        IndexDeclarations(roles, permissions, relations, "Org")

SpecIndex == Init /\ [][NextIndex]_vars

(***************************************************************************)
(* Loaded sources (kb.rs add_source, check_file, remove_source and         *)
(* remove_file).  Sources maps a source id to its Source; a Counter hands  *)
(* out its current value and steps to the next one.                        *)
(***************************************************************************)
MaxSources == 3   \* ids handed out by add_source
MaxLoaded == 2    \* rules and inline queries held while sources are loaded

Source(filename, src) == [filename |-> filename, src |-> src]

\* Counter::next, below the value at which the counter wraps.
next(counter) == counter + 1

\* A rule built by the parser carries the id of its source.
FromParser(rule, src_id) ==
    [name |-> rule.name, params |-> rule.params, body |-> rule.body,
     src_id |-> src_id]

\* rule.source_info as Some(src_id) for SourceInfo::Parser, None otherwise.
parser_src_id(rule) ==
    IF "src_id" \in DOMAIN rule THEN Some(rule.src_id) ELSE None

RetValue(op, res, value) ==
    [op |-> op, res |-> res, msg |-> "", index |-> 0, value |-> value]

FileLoading(msg) == [kind |-> "FileLoading", msg |-> msg]

Without(f, k) == [x \in DOMAIN f \ {k} |-> f[x]]

\* kb.rs check_file: the file may be loaded unless its name or its content
\* is already loaded.
check_file_by_name_only(src, filename) ==
    LET other_file == IF src \in DOMAIN loaded_content
                      THEN Some(loaded_content[src]) ELSE None
        loaded == filename \in DOMAIN loaded_files
    IN  IF other_file # None /\ loaded /\ other_file[1] = filename
        THEN Err(FileLoading("File " \o filename \o " has already been loaded."))
        ELSE IF loaded
        THEN Err(FileLoading("A file with the name " \o filename
                 \o ", but different contents has already been loaded."))
        ELSE Ok(<<>>)

check_file(src, filename) ==
    LET other_file == IF src \in DOMAIN loaded_content
                      THEN Some(loaded_content[src]) ELSE None
        loaded == filename \in DOMAIN loaded_files
    IN  IF other_file # None /\ loaded /\ other_file[1] = filename
        THEN Err(FileLoading("File " \o filename \o " has already been loaded."))
        ELSE IF loaded
        THEN Err(FileLoading("A file with the name " \o filename
                 \o ", but different contents has already been loaded."))
        ELSE IF other_file # None
        THEN Err(FileLoading("A file with the same contents as " \o filename
                 \o " named " \o other_file[1] \o " has already been loaded."))
        ELSE Ok(<<>>)

\* kb.rs add_source: the id is taken before the file is checked.
add_source(source) ==
    LET src_id == id_counter
        checked == IF source.filename # None
                   THEN check_file(source.src, source.filename[1])
                   ELSE Ok(<<>>)
    IN  /\ id_counter' = next(id_counter)
        /\ IF ~checked.ok
           THEN /\ ret' = Ret("add_source", checked.kind, checked.msg, 0)
                /\ UNCHANGED <<loaded_content, loaded_files, sources>>
           ELSE /\ IF source.filename # None
                   THEN /\ loaded_content' =
                                Put(loaded_content, source.src, source.filename[1])
                        /\ loaded_files' =
                                Put(loaded_files, source.filename[1], src_id)
                   ELSE UNCHANGED <<loaded_content, loaded_files>>
                /\ sources' = Put(sources, src_id, source)
                /\ ret' = RetValue("add_source", "Ok", src_id)
        /\ UNCHANGED <<constants, mro, rules, rule_prototypes, resource_blocks,
                       gensym_counter, inline_queries, rule_param, prototype_param>>

\* kb.rs:81-86: the prefix of a temporary made from a variable name.
temp_prefix(name) == IF name = "_" THEN name ELSE "_" \o name \o "_"

\* gensym numbering its symbols from the counter of the ids.
gensym_from_id_counter(prefix) ==
    /\ id_counter' = next(id_counter)
    /\ ret' = RetValue("gensym", "Ok", temp_prefix(prefix) \o ToString(id_counter))
    /\ UNCHANGED <<constants, mro, rules, rule_prototypes, resource_blocks,
                   loaded_files, loaded_content, sources, gensym_counter,
                   inline_queries, rule_param, prototype_param>>

\* kb.rs:89-93 gensym: a new symbol, numbered from gensym_counter.
gensym(prefix) ==
    /\ gensym_counter' = next(gensym_counter)
    /\ ret' = RetValue("gensym", "Ok", temp_prefix(prefix) \o ToString(gensym_counter))
    /\ UNCHANGED <<constants, mro, rules, rule_prototypes, resource_blocks,
                   loaded_files, loaded_content, sources, id_counter,
                   inline_queries, rule_param, prototype_param>>

\* An inline query of a loaded source, pushed by the loader.
push_inline_query(src_id) ==
    /\ inline_queries' = Append(inline_queries, [src_id |-> src_id])
    /\ ret' = Unit
    /\ UNCHANGED <<constants, mro, rules, rule_prototypes, resource_blocks,
                   loaded_files, loaded_content, sources, id_counter,
                   gensym_counter, rule_param, prototype_param>>

\* kb.rs:514-527: rules.retain, which drops the rules parsed from the source
\* and then every GenericRule that holds no rule.
retain_rules_keeping_empty(generic_rules, source_id) ==
    [n \in DOMAIN generic_rules |->
        SelectSeq(generic_rules[n],
                  LAMBDA rule : parser_src_id(rule) # Some(source_id))]

retain_rules(generic_rules, source_id) ==
    LET kept == [n \in DOMAIN generic_rules |->
                    SelectSeq(generic_rules[n],
                              LAMBDA rule : parser_src_id(rule) # Some(source_id))]
    IN  [n \in {m \in DOMAIN kept : kept[m] # <<>>} |-> kept[n]]

\* kb.rs remove_source, called as `op`; a source id that is not loaded
\* panics (expect) after the rules were retained.
\* remove_source forgetting the filename and keeping the content entry.
RemoveSourceKeepingContent(op, source_id) ==
    /\ rules' = retain_rules(rules, source_id)
    /\ IF source_id \notin DOMAIN sources
       THEN /\ ret' = Ret(op, "Panic", "source doesn't exist in KB", 0)
            /\ UNCHANGED <<sources, inline_queries, loaded_files, loaded_content>>
       ELSE LET source == sources[source_id]
            IN  /\ sources' = Without(sources, source_id)
                /\ inline_queries' =
                        SelectSeq(inline_queries,
                                  LAMBDA q : q.src_id # Some(source_id))
                /\ IF source.filename # None
                   THEN /\ loaded_files' = Without(loaded_files, source.filename[1])
                        /\ UNCHANGED loaded_content
                   ELSE UNCHANGED <<loaded_files, loaded_content>>
                /\ ret' = RetValue(op, "Ok", source.src)
    /\ UNCHANGED <<constants, mro, rule_prototypes, resource_blocks, id_counter,
                   gensym_counter, rule_param, prototype_param>>

RemoveSource(op, source_id) ==
    /\ rules' = retain_rules(rules, source_id)
    /\ IF source_id \notin DOMAIN sources
       THEN /\ ret' = Ret(op, "Panic", "source doesn't exist in KB", 0)
            /\ UNCHANGED <<sources, inline_queries, loaded_files, loaded_content>>
       ELSE LET source == sources[source_id]
            IN  /\ sources' = Without(sources, source_id)
                /\ inline_queries' =
                        SelectSeq(inline_queries,
                                  LAMBDA q : q.src_id # Some(source_id))
                /\ IF source.filename # None
                   THEN /\ loaded_files' = Without(loaded_files, source.filename[1])
                        /\ loaded_content' =
                                [c \in {x \in DOMAIN loaded_content :
                                            loaded_content[x] # source.filename[1]}
                                    |-> loaded_content[c]]
                   ELSE UNCHANGED <<loaded_files, loaded_content>>
                /\ ret' = RetValue(op, "Ok", source.src)
    /\ UNCHANGED <<constants, mro, rule_prototypes, resource_blocks, id_counter,
                   gensym_counter, rule_param, prototype_param>>

remove_source(source_id) == RemoveSource("remove_source", source_id)

\* kb.rs remove_file: None for a filename that is not loaded.
remove_file(filename) ==
    IF filename \in DOMAIN loaded_files
    THEN RemoveSource("remove_file", loaded_files[filename])
    ELSE /\ ret' = Ret("remove_file", "None", "", 0)
         /\ UNCHANGED <<constants, mro, rules, rule_prototypes, resource_blocks,
                        source_state, rule_param, prototype_param>>

\* The sources and rules a host loads.
Filenames == {"a.polar", "b.polar"}
Contents == {"f(1);", "g(2);"}
SourceUniverse ==
    {Source(filename, src) :
        filename \in {None} \cup {Some(f) : f \in Filenames}, src \in Contents}
LoadedRules ==
    {Rule("f", <<>>, And(<<>>)), Rule("g", <<>>, And(<<>>))}

\* The source being loaded: the one add_source registered last.
Loading == {id \in DOMAIN sources : next(id) = id_counter}

\* A rule the host adds itself, or a rule parsed from the source being loaded.
ParsedRules ==
    {Rule("f", <<>>, And(<<>>))}
        \cup {FromParser(rule, id) : rule \in LoadedRules, id \in Loading}

Loaded == Count(rules) + Len(inline_queries)

NextSources ==
    \/ \E source \in SourceUniverse :
            id_counter <= MaxSources /\ add_source(source)
    \/ \E rule \in ParsedRules : Loaded < MaxLoaded /\ add_rule(rule)
    \/ \E id \in Loading : Loaded < MaxLoaded /\ push_inline_query(Some(id))
    \/ \E id \in 1..MaxSources : remove_source(id)
    \/ \E filename \in Filenames : remove_file(filename)
    \/ clear_rules

SpecSources == Init /\ [][NextSources]_vars

\* The two counters: loads and removals of sources, and gensym calls.
MaxGensyms == 3
Prefixes == {"x", "_"}
NextIds ==
    \/ \E source \in SourceUniverse :
            id_counter <= MaxSources /\ add_source(source)
    \/ \E prefix \in Prefixes : gensym_counter <= MaxGensyms /\ gensym(prefix)
    \/ \E filename \in Filenames : remove_file(filename)
    \/ clear_rules

SpecIds == Init /\ [][NextIds]_vars

(***************************************************************************)
(* Properties of the matcher, read off the last check_param call.          *)
(***************************************************************************)
Checked == ret.op = "check_param"
RuleSpec == rule_param.specializer
ProtoSpec == prototype_param.specializer

\* The pair reaches check_pattern_param with two instance patterns.
BothInstance ==
    /\ Checked
    /\ IsVariable(rule_param.parameter) /\ IsVariable(prototype_param.parameter)
    /\ RuleSpec.kind = "Instance" /\ ProtoSpec.kind = "Instance"

\* C2's case: rule on B{}, prototype on A{}, A # B, A registered with an
\* instance id, B with an MRO.
C2_Case ==
    /\ BothInstance
    /\ RuleSpec.fields = NoFields /\ ProtoSpec.fields = NoFields
    /\ RuleSpec.tag # ProtoSpec.tag
    /\ ProtoSpec.tag \in DOMAIN constants
    /\ constants[ProtoSpec.tag].kind = "ExternalInstance"
    /\ RuleSpec.tag \in DOMAIN mro

\* C2: a rule on B{} matches a prototype on A{} (A # B, A registered with
\* instance id a, B with a registered MRO) if and only if a is an element of
\* B's MRO list.
C2_SubclassMatch ==
    C2_Case =>
        (ret.res = "True" <=>
            \E i \in 1..Len(mro[RuleSpec.tag]) :
                mro[RuleSpec.tag][i] = constants[ProtoSpec.tag].instance_id)

\* A rule on the subclass Citrus (MRO <<2, 1>>) has matched a prototype on Fruit.
C2_Witness ==
    /\ C2_Case /\ ret.res = "True"
    /\ RuleSpec.tag = "Citrus" /\ ProtoSpec.tag = "Fruit"
    /\ mro["Citrus"] = <<2, 1>>

\* The fields as sets of key-value pairs.
Pairs(f) == {<<k, f[k]>> : k \in DOMAIN f}

\* The rule's value and the prototype's value, when each carries a literal:
\* bare (no specializer) or as the value specializer of a variable.
IsLiteral(v) == v.kind \in {"Integer", "Float", "String", "Boolean", "List", "Dictionary"}
RuleBare == ~IsSome(RuleSpec) /\ IsLiteral(rule_param.parameter)
RuleValueSpec == IsVariable(rule_param.parameter) /\ IsLiteral(RuleSpec)
ProtoBare == ~IsSome(ProtoSpec) /\ IsLiteral(prototype_param.parameter)
ProtoValueSpec == IsVariable(prototype_param.parameter) /\ IsLiteral(ProtoSpec)
RuleValue == IF RuleBare THEN rule_param.parameter ELSE RuleSpec
ProtoValue == IF ProtoBare THEN prototype_param.parameter ELSE ProtoSpec
\* The combinations check_param hands to check_value_param.
ComparedAsValues ==
    /\ Checked
    /\ \/ ProtoValueSpec /\ (RuleValueSpec \/ RuleBare)
       \/ ProtoBare /\ RuleBare

\* The pairs whose outcome is decided by field matching alone: two dictionary
\* patterns, two instance patterns of one tag, two dictionary values.
C3_Case ==
    \/ /\ Checked
       /\ IsVariable(rule_param.parameter) /\ IsVariable(prototype_param.parameter)
       /\ RuleSpec.kind = "DictionaryPattern" /\ ProtoSpec.kind = "DictionaryPattern"
    \/ BothInstance /\ RuleSpec.tag = ProtoSpec.tag
    \/ /\ ComparedAsValues
       /\ RuleValue.kind = "Dictionary" /\ ProtoValue.kind = "Dictionary"
C3_ProtoFields == IF IsSome(ProtoSpec) THEN ProtoSpec.fields ELSE ProtoValue.fields
C3_RuleFields == IF IsSome(RuleSpec) THEN RuleSpec.fields ELSE RuleValue.fields

\* C3: field matching between prototype fields F and rule fields F' succeeds
\* if and only if every key of F is a key of F' with an equal value, for
\* dictionary values, dictionary patterns and instance patterns alike.
C3_FieldsSuperset ==
    C3_Case => (ret.res = "True" <=> Pairs(C3_ProtoFields) \subseteq Pairs(C3_RuleFields))

\* A rule with an extra field has matched a prototype with fewer fields.
C3_Witness ==
    /\ C3_Case /\ ret.res = "True"
    /\ C3_ProtoFields = [id |-> Integer("1")]
    /\ C3_RuleFields = [id |-> Integer("1"), name |-> String("Dave")]

\* C4 as stated: a prototype parameter with no specializer matches any rule
\* parameter.
C4_NoSpecializerMatchesAll ==
    (Checked /\ ~IsSome(ProtoSpec)) => ret.res = "True"

\* C4 as amended: a prototype parameter that is a variable with no
\* specializer matches any rule parameter, whatever its shape.
C4_BareVariableMatchesAll ==
    (Checked /\ IsVariable(prototype_param.parameter) /\ ~IsSome(ProtoSpec))
        => ret.res = "True"

\* A bare literal rule parameter has matched a bare variable of the prototype.
C4_Witness ==
    /\ Checked /\ IsVariable(prototype_param.parameter) /\ ~IsSome(ProtoSpec)
    /\ RuleBare /\ ret.res = "True"

\* C5 as stated: a rule parameter with no specializer never matches a
\* prototype parameter that has one.
C5_NoSpecializerNeverMatches ==
    (Checked /\ ~IsSome(RuleSpec) /\ IsSome(ProtoSpec)) => ret.res = "False"

\* C5 as amended: a rule parameter that is a variable with no specializer
\* never matches a prototype parameter that has a specializer.
C5_BareVariableNeverMatches ==
    (Checked /\ IsVariable(rule_param.parameter) /\ ~IsSome(RuleSpec) /\ IsSome(ProtoSpec))
        => ret.res = "False"

\* A bare variable of the rule was checked against an instance pattern.
C5_Witness ==
    /\ Checked /\ IsVariable(rule_param.parameter) /\ ~IsSome(RuleSpec)
    /\ ProtoSpec.kind = "Instance" /\ ret.res = "False"

\* The tag that names a literal's primitive kind.
KindTag(v) ==
    CASE v.kind = "String" -> "String"
      [] v.kind = "Integer" -> "Integer"
      [] v.kind = "Float" -> "Float"
      [] v.kind = "Boolean" -> "Boolean"
      [] v.kind = "List" -> "List"
      [] v.kind = "Dictionary" -> "Dictionary"

C6_Case ==
    /\ Checked
    /\ IsVariable(prototype_param.parameter) /\ ProtoSpec.kind = "Instance"
    /\ (RuleBare \/ RuleValueSpec)

\* C6: a literal rule value (bare or a value specializer) matches a prototype
\* instance pattern with tag K if and only if K names the literal's primitive
\* kind and, for dictionaries, the literal's fields are a superset with equal
\* values of the pattern's fields.
C6_LiteralKind ==
    C6_Case =>
        (ret.res = "True" <=>
            /\ ProtoSpec.tag = KindTag(RuleValue)
            /\ (RuleValue.kind = "Dictionary"
                    => Pairs(ProtoSpec.fields) \subseteq Pairs(RuleValue.fields)))
C6_OtherTagFalse ==
    (C6_Case /\ ProtoSpec.tag # KindTag(RuleValue)) => ret.res = "False"
C6_Theorem == C6_LiteralKind /\ C6_OtherTagFalse

\* A Float literal has matched the tag Float.
C6_Witness ==
    /\ C6_Case /\ RuleValue.kind = "Float" /\ ProtoSpec.tag = "Float"
    /\ ret.res = "True"

\* The value rule: containment for two lists, equality for everything else
\* that is not a pair of dictionaries.
C7_ValueRule ==
    /\ (RuleValue.kind = "List" /\ ProtoValue.kind = "List")
          => (ret.res = "True" <=>
                \A i \in 1..Len(ProtoValue.items) :
                    \E j \in 1..Len(RuleValue.items) :
                        RuleValue.items[j] = ProtoValue.items[i])
    /\ (/\ ~(RuleValue.kind = "List" /\ ProtoValue.kind = "List")
        /\ ~(RuleValue.kind = "Dictionary" /\ ProtoValue.kind = "Dictionary"))
          => (ret.res = "True" <=> RuleValue = ProtoValue)

Validated == ret.op = "validate_rules"

\* The rules that have at least one same-named prototype, as <<name, index>>.
CoveredRules ==
    UNION {{<<n, i>> : i \in DOMAIN rules[n]} :
                n \in DOMAIN rules \cap DOMAIN rule_prototypes}

\* Whole-rule parameter matching, stated parameter by parameter.
Matches(rule, prototype) ==
    /\ Len(rule.params) = Len(prototype.params)
    /\ \A i \in 1..Len(rule.params) :
            check_param(i, rule.params[i], prototype.params[i]).res = "True"

\* No parameter of the comparison ends in an operational error or a panic.
ComparesCleanly(rule, prototype) ==
    \/ Len(rule.params) # Len(prototype.params)
    \/ \A i \in 1..Len(rule.params) :
            check_param(i, rule.params[i], prototype.params[i]).res \in {"True", "False"}

MatchesSome(r) ==
    \E j \in DOMAIN rule_prototypes[r[1]] :
        Matches(rules[r[1]][r[2]], rule_prototypes[r[1]][j])
AllCompareCleanly(r) ==
    \A j \in DOMAIN rule_prototypes[r[1]] :
        ComparesCleanly(rules[r[1]][r[2]], rule_prototypes[r[1]][j])
ArityDiffersFromAll(r) ==
    \A j \in DOMAIN rule_prototypes[r[1]] :
        Len(rules[r[1]][r[2]].params) # Len(rule_prototypes[r[1]][j].params)

\* C1 as stated: whenever validate_rules returns, it returns Ok exactly when
\* every rule whose name has a prototype matches at least one prototype of
\* that name.
C1_OkIffEveryRuleMatches ==
    (Validated /\ ret.res # "Panic")
        => (ret.res = "Ok" <=> \A r \in CoveredRules : MatchesSome(r))

\* C1 as amended: validate_rules returns Ok exactly when no comparison of a
\* rule with a same-named prototype ends in an operational error or a panic
\* and every rule whose name has a prototype matches at least one of them;
\* when every comparison ends in a match result, a rule that matches none of
\* its prototypes (one of another arity than all of them included) gives an
\* InvalidRule error.
C1_OkIffEveryRuleMatchesCleanly ==
    Validated =>
        /\ ret.res = "Ok" <=>
                \A r \in CoveredRules : AllCompareCleanly(r) /\ MatchesSome(r)
        /\ (/\ \A r \in CoveredRules : AllCompareCleanly(r)
            /\ \E r \in CoveredRules : ~MatchesSome(r) \/ ArityDiffersFromAll(r))
                => ret.res = "InvalidRule"

\* validate_rules returned Ok for a rule that matches one of its two
\* prototypes and fails the other.
C1_Witness ==
    /\ Validated /\ ret.res = "Ok"
    /\ \E r \in CoveredRules :
        \E j, k \in DOMAIN rule_prototypes[r[1]] :
            /\ Matches(rules[r[1]][r[2]], rule_prototypes[r[1]][j])
            /\ ~Matches(rules[r[1]][r[2]], rule_prototypes[r[1]][k])

(***************************************************************************)
(* Properties of the implication rewriter, read off rewrite_implications   *)
(* steps: the registry before the step and the rule set after it.          *)
(***************************************************************************)
RewriteStep == ret'.op = "rewrite_implications"
RewriteSucceeds == RewriteStep /\ ret'.res = "Ok"

\* The rules the step appended.
NewRules ==
    UNION {{rules'[n][k] : k \in (Len(RulesOf(n)) + 1)..Len(rules'[n])} :
           n \in DOMAIN rules'}

DeclaredIn(name, resource) ==
    /\ resource \in DOMAIN resource_blocks.declarations
    /\ name \in DOMAIN resource_blocks.declarations[resource]

CategoryIn(name, resource) == resource_blocks.declarations[resource][name].kind

CategoryRule(category) ==
    CASE category = "Role" -> "has_role"
      [] category = "Permission" -> "has_permission"
      [] category = "Relation" -> "has_relation"

ActorVar == Variable("actor")

HeadParams(head, resource) ==
    <<Parameter(ActorVar, InstancePattern("Actor", NoFields)),
      Parameter(String(head), NoneValue),
      Parameter(resource_as_var(resource), InstancePattern(resource, NoFields))>>

ImplicationsOf(resource) == Range(resource_blocks.implications[resource])

IsLocal(implication) == implication.body[2] = None

C8_Case(implication, resource) ==
    /\ IsLocal(implication)
    /\ DeclaredIn(implication.head, resource)
    /\ DeclaredIn(implication.body[1], resource)

C8_Rule(implication, resource) ==
    Rule(CategoryRule(CategoryIn(implication.head, resource)),
         HeadParams(implication.head, resource),
         And(<<Call(CategoryRule(CategoryIn(implication.body[1], resource)),
                    <<ActorVar, String(implication.body[1]),
                      resource_as_var(resource)>>)>>))

\* C8: in every rewrite_implications step, a local implication `head if
\* implier` of block R whose head and implier are declared in R is rewritten to
\* the rule named by head's category, with the parameters actor: Actor{}, the
\* head string unspecialized and R's variable: R{}, and with a conjunction of
\* the single call cat(actor, implier, R's variable), cat being implier's
\* category in R; when the step succeeds that rule is among the rules added.
C8_LocalRewrite ==
    [][RewriteStep =>
        \A resource \in DOMAIN resource_blocks.implications :
            \A implication \in ImplicationsOf(resource) :
                C8_Case(implication, resource) =>
                    /\ as_rule(implication, resource, resource_blocks)
                            = Ok(C8_Rule(implication, resource))
                    /\ RewriteSucceeds => C8_Rule(implication, resource) \in NewRules]_vars

\* A successful rewrite has added has_permission(actor: Actor{}, "invite",
\* org: Org{}) if has_role(actor, "member", org).
C8_Witness ==
    /\ ret.op = "rewrite_implications" /\ ret.res = "Ok"
    /\ "has_permission" \in DOMAIN rules
    /\ \E rule \in Range(rules["has_permission"]) :
            /\ rule.params = HeadParams("invite", "Org")
            /\ rule.body = And(<<Call("has_role",
                                      <<ActorVar, String("member"), Variable("org")>>)>>)

C9_Case(implication, resource) ==
    /\ ~IsLocal(implication)
    /\ DeclaredIn(implication.head, resource)
    /\ DeclaredIn(implication.body[2][1], resource)
    /\ CategoryIn(implication.body[2][1], resource) = "Relation"
    /\ DeclaredIn(implication.body[1],
                  resource_blocks.declarations[resource][implication.body[2][1]].relation_type)

C9_Body(implication, resource) ==
    LET implier == implication.body[1]
        rel == implication.body[2][1]
        T == resource_blocks.declarations[resource][rel].relation_type
    IN  And(<<Call("has_relation",
                   <<resource_as_var(T), String(rel), resource_as_var(resource)>>),
              Call(CategoryRule(CategoryIn(implier, T)),
                   <<ActorVar, String(implier), resource_as_var(T)>>)>>)

\* C9: in every rewrite_implications step, a relational implication `head if
\* implier on rel` of block R, with rel declared in R as a relation of type T
\* and implier declared in T's block, is rewritten to a rule whose body is the
\* conjunction of has_relation(T's variable, rel, R's variable) and
\* cat(actor, implier, T's variable), in this order, cat being implier's
\* category in T's block; when the step succeeds that rule is among the rules
\* added.
C9_RelationalRewrite ==
    [][RewriteStep =>
        \A resource \in DOMAIN resource_blocks.implications :
            \A implication \in ImplicationsOf(resource) :
                C9_Case(implication, resource) =>
                    LET rule == Rule(CategoryRule(CategoryIn(implication.head, resource)),
                                     HeadParams(implication.head, resource),
                                     C9_Body(implication, resource))
                    IN  /\ as_rule(implication, resource, resource_blocks) = Ok(rule)
                        /\ RewriteSucceeds => rule \in NewRules]_vars

\* A successful rewrite has added a rule for `"reader" if "member" on "parent"`
\* of Repo, where "member" is a permission of Repo and a role of Org: its
\* second call is has_role(actor, "member", org).
C9_Witness ==
    /\ ret.op = "rewrite_implications" /\ ret.res = "Ok"
    /\ "has_role" \in DOMAIN rules
    /\ \E rule \in Range(rules["has_role"]) :
            /\ rule.params = HeadParams("reader", "Repo")
            /\ rule.body = And(<<Call("has_relation",
                                      <<Variable("org"), String("parent"), Variable("repo")>>),
                                 Call("has_role",
                                      <<ActorVar, String("member"), Variable("org")>>)>>)

(***************************************************************************)
(* The registry across loads.  A load is a run of add_to_kb calls followed *)
(* by rewrite_implications, and it ends at the first call that fails.      *)
(***************************************************************************)
LoadFailed ==
    /\ ret.op \in {"add_to_kb", "rewrite_implications"}
    /\ ret.res # "Ok"

\* C10 as stated: when add_to_kb or rewrite_implications has failed, the next
\* add_to_kb call, which begins the next load, starts from an empty registry.
C10_NextLoadStartsClean ==
    [][(LoadFailed /\ ret'.op = "add_to_kb") => resource_blocks = NoBlocks]_vars

(***************************************************************************)
(* The rule set across rewrite_implications.                               *)
(***************************************************************************)
RECURSIVE Sum(_, _)
Sum(f, D) == IF D = {} THEN 0
             ELSE LET d == CHOOSE d \in D : TRUE
                  IN  f[d] + Sum(f, D \ {d})

\* The implications accumulated in the registry.
Accumulated ==
    Sum([resource \in DOMAIN resource_blocks.implications |->
            Len(resource_blocks.implications[resource])],
        DOMAIN resource_blocks.implications)

IsPrefix(s, t) == Len(s) <= Len(t) /\ \A i \in DOMAIN s : s[i] = t[i]

\* C11: a rewrite_implications call that fails leaves the rule set exactly as
\* it was; one that succeeds keeps every rule it found and adds exactly one
\* rule per accumulated implication.
C11_AllOrNothing ==
    [][RewriteStep =>
        IF ret'.res # "Ok"
        THEN rules' = rules
        ELSE /\ Count(rules') = Count(rules) + Accumulated
             /\ Cardinality(NewRules) <= Accumulated
             /\ \A n \in DOMAIN rules :
                    n \in DOMAIN rules' /\ IsPrefix(rules[n], rules'[n])]_vars

\* rewrite_implications has failed on Repo's implier "admin", which Org's
\* block does not declare, in a batch in which Org's own two implications
\* rewrite, after an earlier batch had added rules.
C11_Witness ==
    /\ ret.op = "rewrite_implications" /\ ret.res = "ParseError"
    /\ ret.msg = "Repo: Term \"admin\" not declared in related resource block 'Org'."
    /\ resource_blocks = NoBlocks
    /\ Count(rules) > 0

(***************************************************************************)
(* Properties of add_source, read off its steps.  What is loaded is read   *)
(* from `sources`, not from the filename and content maps.                 *)
(***************************************************************************)
FileIsLoaded(filename, src) ==
    \E id \in DOMAIN sources : sources[id] = Source(Some(filename), src)

SameFileLoaded(source) == FileIsLoaded(source.filename[1], source.src)

NameLoadedWithOtherContent(source) ==
    \E src \in Contents \ {source.src} : FileIsLoaded(source.filename[1], src)

ContentLoadedUnderOtherName(source) ==
    \E filename \in Filenames \ {source.filename[1]} :
        FileIsLoaded(filename, source.src)

OtherNameOf(source) ==
    CHOOSE filename \in Filenames \ {source.filename[1]} :
        FileIsLoaded(filename, source.src)

Rejected(msg) ==
    /\ ret' = Ret("add_source", "FileLoading", msg, 0)
    /\ UNCHANGED <<sources, loaded_files, loaded_content>>

Accepted(source) ==
    /\ ret' = RetValue("add_source", "Ok", id_counter)
    /\ sources' = Put(sources, id_counter, source)

\* C12: add_source of a named file is rejected exactly when that file is
\* loaded with the same content ("has already been loaded"), when the name is
\* loaded with other content ("different contents"), or when the content is
\* loaded under another name ("same contents as"; when the name is loaded too,
\* the "different contents" message is the one given); it is accepted in every
\* other situation, and a source without a filename is always accepted.
C12_AddSourceRejections ==
    [][\A source \in SourceUniverse :
        add_source(source) =>
            IF source.filename = None THEN Accepted(source)
            ELSE IF SameFileLoaded(source)
            THEN Rejected("File " \o source.filename[1] \o " has already been loaded.")
            ELSE IF NameLoadedWithOtherContent(source)
            THEN Rejected("A file with the name " \o source.filename[1]
                          \o ", but different contents has already been loaded.")
            ELSE IF ContentLoadedUnderOtherName(source)
            THEN Rejected("A file with the same contents as " \o source.filename[1]
                          \o " named " \o OtherNameOf(source)
                          \o " has already been loaded.")
            ELSE Accepted(source)]_vars

\* b.polar was offered with the content a.polar is loaded with, and rejected.
C12_Witness ==
    /\ ret.op = "add_source"
    /\ ret.msg = "A file with the same contents as b.polar named a.polar has already been loaded."
    /\ FileIsLoaded("a.polar", "f(1);")
    /\ ~\E src \in Contents : FileIsLoaded("b.polar", src)

(***************************************************************************)
(* Properties of remove_source and remove_file, read off their steps.      *)
(***************************************************************************)
IsFrom(rule, id) == "src_id" \in DOMAIN rule /\ rule.src_id = id

RECURSIVE NotFrom(_, _)
NotFrom(seq, id) ==
    IF seq = <<>> THEN <<>>
    ELSE IF IsFrom(Head(seq), id) THEN NotFrom(Tail(seq), id)
    ELSE <<Head(seq)>> \o NotFrom(Tail(seq), id)

\* What removing the loaded source `id` by the call `op` leaves and returns.
Removes(op, id) ==
    /\ DOMAIN rules' = {n \in DOMAIN rules : \E i \in DOMAIN rules[n] : ~IsFrom(rules[n][i], id)}
    /\ \A n \in DOMAIN rules' : rules'[n] = NotFrom(rules[n], id)
    /\ DOMAIN sources' = DOMAIN sources \ {id}
    /\ \A other \in DOMAIN sources' : sources'[other] = sources[other]
    /\ inline_queries' = NotFrom(inline_queries, Some(id))
    /\ \A filename \in Filenames :
            IF sources[id].filename = Some(filename)
            THEN filename \notin DOMAIN loaded_files'
            ELSE /\ filename \in DOMAIN loaded_files' <=> filename \in DOMAIN loaded_files
                 /\ filename \in DOMAIN loaded_files =>
                        loaded_files'[filename] = loaded_files[filename]
    /\ \A src \in Contents :
            IF src \in DOMAIN loaded_content
                /\ sources[id].filename = Some(loaded_content[src])
            THEN src \notin DOMAIN loaded_content'
            ELSE /\ src \in DOMAIN loaded_content' <=> src \in DOMAIN loaded_content
                 /\ src \in DOMAIN loaded_content =>
                        loaded_content'[src] = loaded_content[src]
    /\ sources[id].filename # None =>
            /\ sources[id].src \notin DOMAIN loaded_content'
            /\ ~\E other \in DOMAIN sources' :
                    sources'[other].filename = sources[id].filename
    /\ ret' = RetValue(op, "Ok", sources[id].src)

IdsOfFile(filename) ==
    {id \in DOMAIN sources : sources[id].filename = Some(filename)}

\* C13: remove_source of a loaded source, and remove_file of a loaded
\* filename, remove exactly the rules parsed from that source, keep every
\* other rule in place, drop each GenericRule left empty, remove the source,
\* its inline queries and its filename and content entries, so that the file
\* can be loaded again, and return the source text; remove_file of a filename
\* that is not loaded returns None and changes nothing.
C13_RemoveSource ==
    [][/\ \A id \in DOMAIN sources :
            remove_source(id) => Removes("remove_source", id)
       /\ \A filename \in Filenames :
            remove_file(filename) =>
                IF IdsOfFile(filename) = {}
                THEN /\ ret' = Ret("remove_file", "None", "", 0)
                     /\ UNCHANGED <<rules, source_state>>
                ELSE \A id \in IdsOfFile(filename) : Removes("remove_file", id)]_vars

\* a.polar has been removed with its text returned, and the rule parsed from
\* b.polar, loaded as source 2, is still in place, as is a rule of no source.
C13_Witness ==
    /\ ret = RetValue("remove_file", "Ok", "f(1);")
    /\ ~\E src \in Contents : FileIsLoaded("a.polar", src)
    /\ FileIsLoaded("b.polar", "g(2);")
    /\ "f" \in DOMAIN rules
    /\ rules["f"] = <<Rule("f", <<>>, And(<<>>)),
                      FromParser(Rule("f", <<>>, And(<<>>)), 2)>>

(***************************************************************************)
(* Properties of add_to_kb and of the registry it fills.                   *)
(***************************************************************************)
OneBlockPerResource ==
    /\ DOMAIN resource_blocks.implications = DOMAIN resource_blocks.declarations
    /\ resource_blocks.actors \cup resource_blocks.resources
            = DOMAIN resource_blocks.declarations
    /\ resource_blocks.actors \cap resource_blocks.resources = {}

\* C14: add_to_kb accepts a block only if its resource is a registered
\* constant and has no block in the registry, the accepted block is then the
\* one registered under that name, and a rejected block leaves the registry as
\* it was; in every reachable state each registered resource name has one
\* block, of one entity type.
C14_OneBlockPerResource ==
    /\ []OneBlockPerResource
    /\ [][\A block \in BlockUniverse :
            add_to_kb(block) =>
                IF ret'.res = "Ok"
                THEN /\ block.resource \in DOMAIN constants
                     /\ block.resource \notin DOMAIN resource_blocks.declarations
                     /\ resource_blocks'.implications[block.resource]
                            = block.implications
                     /\ \A other \in DOMAIN resource_blocks.declarations :
                            resource_blocks'.declarations[other]
                                = resource_blocks.declarations[other]
                ELSE resource_blocks' = resource_blocks]_vars

\* A second block for Org was rejected as a duplicate while the first, a
\* resource block with its two implications, is registered.
C14_Witness ==
    /\ ret.op = "add_to_kb"
    /\ ret.msg = "Duplicate declaration of 'Org' resource block."
    /\ "Org" \in resource_blocks.resources
    /\ resource_blocks.implications["Org"] = OrgBlock.implications

(***************************************************************************)
(* Properties of index_declarations, read off its last call.               *)
(***************************************************************************)
Indexed == ret.op = "index_declarations"
RolesArg == OrEmpty(ret.args[1])
PermissionsArg == OrEmpty(ret.args[2])
RelationsArg == OrEmpty(ret.args[3])
RelationKeys == {RelationsArg[i][1] : i \in DOMAIN RelationsArg}

Twice(name, list) == \E i, j \in DOMAIN list : i # j /\ list[i] = name /\ list[j] = name

\* The errors that name a clash the declarations really have.
ClashErrors ==
    {"Org: Duplicate declaration of " \o to_polar(name) \o " in the roles list." :
        name \in {n \in DeclaredNames : Twice(n, RolesArg)}}
    \cup
    {"Org: Duplicate declaration of " \o to_polar(name) \o " in the permissions list." :
        name \in {n \in DeclaredNames : Twice(n, PermissionsArg)}}
    \cup
    {"Org: " \o to_polar(name)
        \o " declared as a permission but it was previously declared as a role." :
        name \in Range(RolesArg) \cap Range(PermissionsArg)}
    \cup
    {"Org: '" \o name
        \o "' declared as a relation but it was previously declared as a role." :
        name \in RelationKeys \cap Range(RolesArg)}
    \cup
    {"Org: '" \o name
        \o "' declared as a relation but it was previously declared as a permission." :
        name \in RelationKeys \cap Range(PermissionsArg)}

\* C15: index_declarations succeeds exactly when no name is declared twice in
\* the roles list, twice in the permissions list, or in two categories; a
\* failure is a parse error naming the block, the name and the list it is
\* repeated in or the category that declared it earlier; on success the
\* declared names are exactly the keys, each role mapped to Role, each
\* permission to Permission and each relation key to Relation of its type.
C15_IndexDeclarations ==
    Indexed =>
        IF ClashErrors # {}
        THEN ret.res = "ParseError" /\ ret.msg \in ClashErrors
        ELSE /\ ret.res = "Ok"
             /\ DOMAIN ret.value
                    = Range(RolesArg) \cup Range(PermissionsArg) \cup RelationKeys
             /\ \A name \in Range(RolesArg) : ret.value[name] = Role
             /\ \A name \in Range(PermissionsArg) : ret.value[name] = Permission
             /\ \A i \in DOMAIN RelationsArg :
                    ret.value[RelationsArg[i][1]] = Relation(RelationsArg[i][2])

\* "egg" and "tootsie" are roles and then permissions: the error names the
\* first permission of the list and the category that declared it earlier.
C15_Witness ==
    /\ Indexed
    /\ ret.args = <<Some(<<"egg", "tootsie">>), Some(<<"tootsie", "egg">>), None, "Org">>
    /\ ret.msg = "Org: \"tootsie\" declared as a permission but it was previously declared as a role."

(***************************************************************************)
(* When heads and impliers are checked.                                    *)
(***************************************************************************)
NamesOf(block) ==
    Range(OrEmpty(block.roles)) \cup Range(OrEmpty(block.permissions))
        \cup {OrEmpty(block.relations)[i][1] : i \in DOMAIN OrEmpty(block.relations)}

HeadsDeclared(block) ==
    \A i \in DOMAIN block.implications : block.implications[i].head \in NamesOf(block)

ImpliersDeclared(block) ==
    \A i \in DOMAIN block.implications :
        block.implications[i].body[1] \in NamesOf(block)

Acceptable(block) ==
    /\ block.resource \in DOMAIN constants
    /\ block.resource \notin DOMAIN resource_blocks.declarations
    /\ index_declarations(block.roles, block.permissions, block.relations,
                          block.resource).ok
    /\ HeadsDeclared(block)

\* An accumulated implication whose implier is not declared where the
\* rewriter looks for it: in its own block or, with `on rel`, in the block of
\* rel's type.
ImplierMissing(implication, resource) ==
    IF IsLocal(implication)
    THEN ~DeclaredIn(implication.body[1], resource)
    ELSE /\ DeclaredIn(implication.body[2][1], resource)
         /\ CategoryIn(implication.body[2][1], resource) = "Relation"
         /\ ~DeclaredIn(implication.body[1],
                resource_blocks.declarations[resource][implication.body[2][1]].relation_type)

\* C16: add_to_kb rejects a block with an implication whose head the block
\* does not declare, and accepts every block that is registered, new, free of
\* clashes and declares its heads, whatever its impliers are; an implier that
\* is not declared where the rewriter looks for it makes rewrite_implications
\* fail.
C16_HeadsEarlyImpliersLate ==
    [][/\ \A block \in BlockUniverse :
            add_to_kb(block) =>
                /\ ~HeadsDeclared(block) => ret'.res # "Ok"
                /\ Acceptable(block) <=> ret'.res = "Ok"
       /\ RewriteStep =>
            ((\E resource \in DOMAIN resource_blocks.implications :
                \E implication \in ImplicationsOf(resource) :
                    ImplierMissing(implication, resource))
                => ret'.res # "Ok")]_vars

\* Repo's block, whose implier "member" is to be found in Org's block, was
\* accepted while Org has no block yet.
C16_Witness ==
    /\ ret = Ret("add_to_kb", "Ok", "", 0)
    /\ DOMAIN resource_blocks.declarations = {"Repo"}
    /\ resource_blocks.implications["Repo"] = RepoBlock.implications

(***************************************************************************)
(* The classes that have an MRO.                                           *)
(***************************************************************************)
\* C17 as stated: add_mro succeeds only for a class that is registered as a
\* constant holding an ExternalInstance, and on failure returns a parameter
\* error and leaves the MRO map as it was.
C17_MroOnlyForExternalInstances ==
    [][\A name \in Classes : \A m \in MroLists :
        add_mro(name, m) =>
            IF name \in DOMAIN constants /\ constants[name].kind = "ExternalInstance"
            THEN ret'.res = "Ok"
            ELSE ret'.res = "ParameterError" /\ mro' = mro]_vars

(***************************************************************************)
(* The errors of a relational implication.                                 *)
(***************************************************************************)
RelationOf(implication) == implication.body[2][1]
TypeOfRelation(implication, resource) ==
    resource_blocks.declarations[resource][RelationOf(implication)].relation_type

\* The error C18 gives for the implication, or "" where it gives none.
C18_Error(implication, resource) ==
    IF ~DeclaredIn(RelationOf(implication), resource)
    THEN "Undeclared term " \o to_polar(RelationOf(implication))
            \o " referenced in rule in the '" \o resource \o "' resource block."
    ELSE IF CategoryIn(RelationOf(implication), resource) # "Relation" THEN ""
    ELSE IF TypeOfRelation(implication, resource)
                \notin DOMAIN resource_blocks.declarations
    THEN resource \o ": Relation " \o to_polar(RelationOf(implication))
            \o " in rule body " \o to_polar(implication.body[1]) \o " on "
            \o to_polar(RelationOf(implication)) \o " has type '"
            \o TypeOfRelation(implication, resource)
            \o "', but no such resource block exists."
    ELSE IF ~DeclaredIn(implication.body[1], TypeOfRelation(implication, resource))
    THEN resource \o ": Term " \o to_polar(implication.body[1])
            \o " not declared in related resource block '"
            \o TypeOfRelation(implication, resource) \o "'."
    ELSE ""

\* C18: in every rewrite_implications step, a relational implication `head if
\* implier on rel` of block R is rewritten with a parse error that is, in
\* this order of precedence: rel undeclared in R; no resource block for rel's
\* type T; implier not declared in T's block; each message names R and the
\* missing term or block.  It is the error the call returns when this is the
\* only accumulated implication and every relation type is registered.
C18_RelationalErrors ==
    [][RewriteStep =>
        \A resource \in DOMAIN resource_blocks.implications :
            \A implication \in ImplicationsOf(resource) :
                (~IsLocal(implication) /\ C18_Error(implication, resource) # "") =>
                    /\ as_rule(implication, resource, resource_blocks)
                            = Err(ParseSugar(C18_Error(implication, resource)))
                    /\ (Accumulated = 1
                            /\ check_all_relation_types_have_been_registered = {})
                        => ret' = Ret("rewrite_implications", "ParseError",
                                      C18_Error(implication, resource), 0)]_vars

\* Repo's `"reader" if "admin" on "parent"` was rewritten while Org, the
\* type of parent, is registered and has no block.
C18_Witness ==
    /\ ret.op = "rewrite_implications"
    /\ ret.msg = "Repo: Relation \"parent\" in rule body \"admin\" on \"parent\" has type 'Org', but no such resource block exists."

(***************************************************************************)
(* The variable of the resource in the rules of resource blocks.           *)
(***************************************************************************)
\* The resource parameter of a rewritten rule: its third parameter.
ResourceParam(rule) == rule.params[3]
AllRules == UNION {Range(rules[n]) : n \in DOMAIN rules}

\* The variable names the claim gives for the type names of the blocks.
VarNameOf(type) ==
    CASE type = "Org" -> "org"
      [] type = "Repo" -> "repo"
      [] type = "team" -> "team_instance"

\* C19: in every rule rewritten from a resource block, the variable of the
\* resource is the lowercased type name (Org gives org, Repo gives repo) with
\* _instance appended exactly for a type name that is already lowercase
\* (team gives team_instance), so it is never the type name itself.
C19_ResourceVariable ==
    \A rule \in AllRules :
        LET type == ResourceParam(rule).specializer.tag
            var  == ResourceParam(rule).parameter
        IN  /\ type \in BlockClasses
            /\ var.kind = "Variable"
            /\ var.val = VarNameOf(type)
            /\ var.val # type

\* Rules of a block for the lowercase type team and of a block for Org have
\* been rewritten.
C19_Witness ==
    /\ \E rule \in AllRules :
            /\ ResourceParam(rule).specializer.tag = "team"
            /\ ResourceParam(rule).parameter = Variable("team_instance")
    /\ \E rule \in AllRules :
            /\ ResourceParam(rule).specializer.tag = "Org"
            /\ ResourceParam(rule).parameter = Variable("org")

(***************************************************************************)
(* The relation types that rewrite_implications wants registered.          *)
(***************************************************************************)
\* The relations declared in the accumulated blocks, as <<resource, name>>.
DeclaredRelations ==
    {p \in UNION {{<<resource, d>> : d \in DOMAIN resource_blocks.declarations[resource]} :
                    resource \in DOMAIN resource_blocks.declarations} :
        resource_blocks.declarations[p[1]][p[2]].kind = "Relation"}
TypeOf(p) == resource_blocks.declarations[p[1]][p[2]].relation_type
Unregistered == {p \in DeclaredRelations : TypeOf(p) \notin DOMAIN constants}
MustBeRegistered(p) ==
    "Type '" \o TypeOf(p) \o "' in relation '" \o p[2] \o ": " \o TypeOf(p)
        \o "' must be registered as a class."

\* C20: a rewrite_implications step that finds a declared relation, used by an
\* implication or not, whose type is not a key of the constants fails with
\* the 'must be registered as a class' error of such a relation, whatever the
\* implications would give, adds no rule and empties the registry; when every
\* declared relation's type is a constant the step gives no such error, and
\* no class has an MRO in these behaviours.
C20_RelationTypesFirst ==
    [][RewriteStep =>
        /\ mro = Empty
        /\ IF Unregistered # {}
           THEN /\ \E p \in Unregistered :
                        ret' = Ret("rewrite_implications", "ParseError",
                                   MustBeRegistered(p), 0)
                /\ rules' = rules
                /\ resource_blocks' = NoBlocks
           ELSE \A p \in DeclaredRelations :
                    ret'.msg # MustBeRegistered(p)]_vars

\* rewrite_implications has given the error for Repo's relation parent: Org
\* while Org is not a constant, after an earlier batch had added rules.
C20_Witness ==
    /\ ret = Ret("rewrite_implications", "ParseError",
                 "Type 'Org' in relation 'parent: Org' must be registered as a class.", 0)
    /\ "Org" \notin DOMAIN constants
    /\ resource_blocks = NoBlocks
    /\ Count(rules) > 0

(***************************************************************************)
(* The ids of sources.  The id add_source returns is the value of          *)
(* id_counter at the call, so ids returned in turn increase strictly when  *)
(* every add_source step raises id_counter and no step lowers it.          *)
(***************************************************************************)
\* The ids that the knowledge base holds for sources.
HeldIds ==
    DOMAIN sources \cup {loaded_files[f] : f \in DOMAIN loaded_files}

\* C21: every add_source step, accepted or rejected, returns the current
\* value of the id counter when it accepts and leaves the counter greater; no
\* other step (remove_source, remove_file, clear_rules, add_rule) lowers the
\* counter; and every id held is below the counter.  So each id returned is
\* greater than all ids returned before, below the 52-bit wrap.
C21_FreshSourceIds ==
    /\ [](\A id \in HeldIds : id < id_counter)
    /\ [][/\ id_counter' >= id_counter
          /\ \A source \in SourceUniverse :
                add_source(source) =>
                    /\ id_counter' > id_counter
                    /\ ret'.res = "Ok" => ret'.value = id_counter]_vars

\* add_source has returned the id 3 while no source of an earlier id is
\* held: the loads before it were removed, cleared or rejected.
C21_Witness ==
    /\ ret.op = "add_source" /\ ret.res = "Ok"
    /\ ret.value = 3
    /\ DOMAIN sources = {3}

(***************************************************************************)
(* Whole-rule matching, read off the last rule_params_match call.          *)
(***************************************************************************)
RuleMatched == ret.op = "rule_params_match"
SameArity == Len(TheRule.params) = Len(ThePrototype.params)
PairResult(i) == check_param(i, TheRule.params[i], ThePrototype.params[i])
FailingPairs == {i \in 1..Len(TheRule.params) : PairResult(i).res = "False"}
LowestFailing == First(FailingPairs)
ArityReason ==
    CASE Len(TheRule.params) = 0 /\ Len(ThePrototype.params) = 1 ->
            "Different number of parameters. Rule has 0 parameter(s) but prototype has 1."
      [] Len(TheRule.params) = 0 /\ Len(ThePrototype.params) = 2 ->
            "Different number of parameters. Rule has 0 parameter(s) but prototype has 2."
      [] Len(TheRule.params) = 1 /\ Len(ThePrototype.params) = 0 ->
            "Different number of parameters. Rule has 1 parameter(s) but prototype has 0."
      [] Len(TheRule.params) = 1 /\ Len(ThePrototype.params) = 2 ->
            "Different number of parameters. Rule has 1 parameter(s) but prototype has 2."
      [] Len(TheRule.params) = 2 /\ Len(ThePrototype.params) = 0 ->
            "Different number of parameters. Rule has 2 parameter(s) but prototype has 0."
      [] Len(TheRule.params) = 2 /\ Len(ThePrototype.params) = 1 ->
            "Different number of parameters. Rule has 2 parameter(s) but prototype has 1."
      [] OTHER -> DifferentArities(TheRule, ThePrototype)

\* The three parts of C22 that hold as stated: True exactly for equal arities
\* with every pair matching; different arities give False with both arities,
\* whatever the parameters would give.
C22_TrueAndArity ==
    /\ ret.res = "True" <=> Matches(TheRule, ThePrototype)
    /\ ~SameArity => ret = Ret("rule_params_match", "False", ArityReason, 0)

\* C22 as stated: besides, when the arities agree and some pair fails, the
\* result is the False of the failing pair with the lowest position.
C22_LowestFailingPair ==
    (RuleMatched /\ ret.res # "Panic") =>
        /\ C22_TrueAndArity
        /\ (SameArity /\ FailingPairs # {}) =>
                /\ ret.res = "False"
                /\ ret.msg = PairResult(LowestFailing).msg
                /\ ret.index = LowestFailing

\* C22 as amended: the result of the failing pair with the lowest position is
\* returned when no pair ends in an operational error; when a pair does, the
\* first such pair decides, also after a pair that failed.
C22_LowestFailingPairUnlessError ==
    RuleMatched =>
        /\ C22_TrueAndArity
        /\ (SameArity /\ FailingPairs # {}) =>
                IF ComparesCleanly(TheRule, ThePrototype)
                THEN /\ ret.res = "False"
                     /\ ret.msg = PairResult(LowestFailing).msg
                     /\ ret.index = LowestFailing
                ELSE ret.res \in {"OperationalError", "Panic"}

\* Both pairs of f(x: Fruit, x: Fruit) against f(x: Citrus, x: Citrus) fail
\* and the reason of the first was returned.
C22_Witness ==
    /\ RuleMatched /\ SameArity
    /\ FailingPairs = {1, 2}
    /\ ret.res = "False" /\ ret.index = 1

(***************************************************************************)
(* The operational error of the matcher.                                   *)
(***************************************************************************)
\* C23's case: rule on T', prototype on T, T' # T, T registered with an
\* instance id.
C23_Case ==
    /\ BothInstance
    /\ RuleSpec.tag # ProtoSpec.tag
    /\ ProtoSpec.tag \in DOMAIN constants
    /\ constants[ProtoSpec.tag].kind = "ExternalInstance"

\* C23 as stated: when the prototype's class T has no registered MRO, the
\* match ends in an operational error.
C23_ErrorWhenPrototypeClassLacksMro ==
    (C23_Case /\ ProtoSpec.tag \notin DOMAIN mro) => ret.res = "OperationalError"

\* C23 as amended: the match ends in an operational error exactly when the
\* rule's class T' has no registered MRO, whether or not T has one; otherwise
\* it ends in True or False.
C23_ErrorWhenRuleClassLacksMro ==
    C23_Case =>
        IF RuleSpec.tag \notin DOMAIN mro
        THEN ret.res = "OperationalError"
        ELSE ret.res \in {"True", "False"}

\* A rule on Citrus, which has no MRO, was matched against a prototype on
\* Fruit, which has one.
C23_Witness ==
    /\ C23_Case /\ ret.res = "OperationalError"
    /\ RuleSpec.tag = "Citrus" /\ ProtoSpec.tag = "Fruit"
    /\ "Fruit" \in DOMAIN mro /\ "Citrus" \notin DOMAIN mro

(***************************************************************************)
(* The registry of resource blocks after rewrite_implications.             *)
(***************************************************************************)
\* C24: every rewrite_implications step, whatever it returns, leaves the
\* registry empty in its declarations, implications, actors and resources;
\* and a step that starts from the empty registry returns Ok and leaves the
\* rules as they are.
C24_RegistryConsumed ==
    [][RewriteStep =>
        /\ resource_blocks'.declarations = Empty
        /\ resource_blocks'.implications = Empty
        /\ resource_blocks'.actors = {}
        /\ resource_blocks'.resources = {}
        /\ resource_blocks = NoBlocks =>
                ret'.res = "Ok" /\ rules' = rules]_vars

\* rewrite_implications has failed on an implication over an undeclared
\* relation and the registry is empty, with rules of an earlier batch held.
C24_Witness ==
    /\ ret.op = "rewrite_implications" /\ ret.res = "ParseError"
    /\ ret.msg = "Undeclared term \"parent\" referenced in rule in the 'Repo' resource block."
    /\ resource_blocks = NoBlocks
    /\ Count(rules) > 0

(***************************************************************************)
(* The counter of the source ids and the counter of gensym.                *)
(***************************************************************************)
GensymStep == ret'.op = "gensym"
AddSourceStep == ret'.op = "add_source"

\* C25 as stated: the two draw from one counter, so a gensym step advances
\* the id the next add_source receives and an add_source step advances the
\* number of the next gensym.
C25_OneSharedCounter ==
    [][/\ GensymStep => id_counter' > id_counter
       /\ AddSourceStep => gensym_counter' > gensym_counter]_vars

\* C25 as amended: the two draw from separate counters.  A gensym step
\* numbers its symbol from gensym_counter, advances it and leaves id_counter
\* alone; an add_source step advances id_counter and leaves gensym_counter
\* alone.
C25_SeparateCounters ==
    [][/\ GensymStep =>
            /\ id_counter' = id_counter
            /\ gensym_counter' > gensym_counter
            /\ ret'.value \in {temp_prefix(prefix) \o ToString(gensym_counter) :
                                    prefix \in Prefixes}
       /\ AddSourceStep =>
            /\ gensym_counter' = gensym_counter
            /\ id_counter' > id_counter]_vars

\* After two add_source calls the first gensym still gives the number 1, and
\* the next add_source will still receive the id 3.
C25_Witness ==
    /\ ret.op = "gensym" /\ ret.value = "_x_1"
    /\ id_counter = 3
    /\ gensym_counter = 2

(***************************************************************************)
(* An implication over a name that is not a relation.                      *)
(***************************************************************************)
\* The implications `head if implier on rel` of the accumulated blocks whose
\* rel the block declares as a role or a permission, as <<resource, implication>>.
OverNonRelation ==
    {p \in UNION {{<<resource, implication>> : implication \in ImplicationsOf(resource)} :
                    resource \in DOMAIN resource_blocks.implications} :
        /\ ~IsLocal(p[2])
        /\ DeclaredIn(RelationOf(p[2]), p[1])
        /\ CategoryIn(RelationOf(p[2]), p[1]) \in {"Role", "Permission"}}
ExpectedRelation(p) ==
    [kind |-> "TypeError",
     msg |-> "Expected Relation; got: " \o CategoryIn(RelationOf(p[2]), p[1])]

\* C26: in every rewrite_implications step, an accumulated implication
\* `head if implier on rel` whose rel is a role or a permission of its block
\* is rewritten to the type error 'Expected Relation' and to no rule; the
\* call fails and leaves the rules as they are, and it returns this type
\* error when every declared relation's type is registered and no other
\* implication is accumulated.
C26_ExpectedRelation ==
    [][RewriteStep =>
        \A p \in OverNonRelation :
            /\ as_rule(p[2], p[1], resource_blocks) = Err(ExpectedRelation(p))
            /\ ret'.res # "Ok"
            /\ rules' = rules
            /\ (Accumulated = 1 /\ Unregistered = {}) =>
                    ret' = Ret("rewrite_implications", "TypeError",
                               ExpectedRelation(p).msg, 0)]_vars

\* Repo's `"reader" if "member" on "read"`, read being a permission, has made
\* rewrite_implications fail, with rules of an earlier batch held.
C26_Witness ==
    /\ ret = Ret("rewrite_implications", "TypeError",
                 "Expected Relation; got: Permission", 0)
    /\ resource_blocks = NoBlocks
    /\ Count(rules) > 0

(***************************************************************************)
(* Operational errors in validate_rules.                                   *)
(***************************************************************************)
\* The result of the pair at position i of a rule and a prototype.
PairOf(rule, prototype, i) == check_param(i, rule.params[i], prototype.params[i])

\* Some pair of the comparison ends in an operational error.
RaisesError(rule, prototype) ==
    /\ Len(rule.params) = Len(prototype.params)
    /\ \E i \in 1..Len(rule.params) : PairOf(rule, prototype, i).res = "OperationalError"

\* An earlier pair fails to match and a later pair ends in an operational error.
FailsThenRaises(rule, prototype) ==
    /\ Len(rule.params) = Len(prototype.params)
    /\ \E i, k \in 1..Len(rule.params) :
            /\ i < k
            /\ PairOf(rule, prototype, i).res = "False"
            /\ PairOf(rule, prototype, k).res = "OperationalError"

\* No comparison of a covered rule aborts.
NoAbort ==
    \A r \in CoveredRules : \A j \in DOMAIN rule_prototypes[r[1]] :
        LET rule == rules[r[1]][r[2]]
            prototype == rule_prototypes[r[1]][j]
        IN  Len(rule.params) = Len(prototype.params) =>
                \A i \in 1..Len(rule.params) : PairOf(rule, prototype, i).res # "Panic"

\* The covered rules one of whose comparisons ends in an operational error.
Erring ==
    {r \in CoveredRules :
        \E j \in DOMAIN rule_prototypes[r[1]] :
            RaisesError(rules[r[1]][r[2]], rule_prototypes[r[1]][j])}

\* C27: when validate_rules has returned, no comparison aborting, and some
\* pair of a comparison of a rule with one of its prototypes ends in an
\* operational error, be it after a pair that failed to match and be the
\* rule a match of another of its prototypes, then validate_rules has not
\* returned Ok, and it has returned the operational error when each other
\* rule matches one of its prototypes.
C27_ErrorNotMasked ==
    (Validated /\ NoAbort /\ Erring # {}) =>
        /\ ret.res # "Ok"
        /\ (\A r \in CoveredRules \ Erring : MatchesSome(r))
                => ret.res = "OperationalError"

\* validate_rules has returned the operational error for a rule that matches
\* one of its two prototypes and whose comparison with the other fails at
\* the first pair and ends in the error at the second.
C27_Witness ==
    /\ Validated /\ ret.res = "OperationalError"
    /\ \E r \in CoveredRules :
        \E j, k \in DOMAIN rule_prototypes[r[1]] :
            /\ Matches(rules[r[1]][r[2]], rule_prototypes[r[1]][j])
            /\ FailsThenRaises(rules[r[1]][r[2]], rule_prototypes[r[1]][k])

(***************************************************************************)
(* The outcomes of validate_rules.                                         *)
(***************************************************************************)
\* C28: whatever the constants and the MROs hold, validate_rules returns Ok,
\* a validation error or an operational error: matching rules on instance
\* patterns never aborts.
C28_MatchingNeverAborts ==
    Validated => ret.res \in {"Ok", "InvalidRule", "OperationalError"}

(***************************************************************************)
(* The variables of a rewritten rule.                                      *)
(***************************************************************************)
ActorOf(rule) == rule.params[1].parameter.val
ResourceOf(rule) == ResourceParam(rule).parameter.val
IsRelational(rule) == Len(rule.body.items) = 2
\* The first argument of the has_relation call: the related resource.
RelatedOf(rule) == rule.body.items[1].items[1].val

\* C29: in every rule rewritten from a resource block the actor variable,
\* the resource variable and, in a rule of a relational implication, the
\* variable of the related resource have pairwise different names.
C29_DistinctVariables ==
    \A rule \in AllRules :
        /\ ActorOf(rule) # ResourceOf(rule)
        /\ IsRelational(rule) =>
                /\ RelatedOf(rule) # ResourceOf(rule)
                /\ RelatedOf(rule) # ActorOf(rule)

(***************************************************************************)
(* The bookkeeping of the loaded files.                                    *)
(***************************************************************************)
ContentsOf(filename) ==
    {src \in DOMAIN loaded_content : loaded_content[src] = filename}

FilesConsistent ==
    /\ {loaded_content[src] : src \in DOMAIN loaded_content} = DOMAIN loaded_files
    /\ \A filename \in DOMAIN loaded_files :
            /\ Cardinality(ContentsOf(filename)) = 1
            /\ loaded_files[filename] \in DOMAIN sources
            /\ sources[loaded_files[filename]].filename = Some(filename)
            /\ sources[loaded_files[filename]].src \in ContentsOf(filename)
    /\ \A f, g \in DOMAIN loaded_files :
            f # g => /\ ContentsOf(f) \cap ContentsOf(g) = {}
                     /\ sources[loaded_files[f]].src # sources[loaded_files[g]].src

\* C30: in every state the filenames of loaded_content are the keys of
\* loaded_files, each loaded filename has one content, which is the text of
\* the source its id refers to, a source that is held, and two loaded
\* filenames have different contents; and an add_source step that is
\* rejected leaves loaded_files, loaded_content and the sources as they are.
C30_FilesConsistent ==
    /\ []FilesConsistent
    /\ [][\A source \in SourceUniverse :
            (add_source(source) /\ ret'.res # "Ok") =>
                UNCHANGED <<loaded_files, loaded_content, sources>>]_vars

\* With a.polar and b.polar loaded as the sources 1 and 2, a third load has
\* been rejected.
C30_Witness ==
    /\ ret.op = "add_source" /\ ret.res # "Ok"
    /\ DOMAIN loaded_files = Filenames
    /\ DOMAIN sources = {1, 2}
    /\ id_counter = 4

====
